---- MODULE Spec2Model ----
(***************************************************************************)
(* A model of api-contract-tester: the fetch interceptor, the lifecycle    *)
(* controller (register / unregister), the contract matcher and the        *)
(* contract validator.                                                     *)
(***************************************************************************)
EXTENDS Integers, Sequences, FiniteSets, TLC

\* ------------------------------------------------------------------ bounds
\* Number of register() calls explored when only the lifecycle runs (Spec).
MaxRegs == 4
\* Number of register() calls explored together with exchanges (SpecExchange).
MaxPipelines == 2
\* Number of on() calls (SpecDirect).
MaxListeners == 2
\* Number of calls of globalThis.fetch explored.
MaxCalls == 1
\* Number of direct calls of matchPathPattern / findContract explored (SpecMatch).
MaxProbes == 1
\* Number of response events a validator is handed (SpecValidate).
MaxHandled == 1
\* calls the callback handed to defineContractConfig makes on the builder
MaxBuilderCalls == 3
\* direct calls of serializeRequest / serializeResponse / the violation summary
MaxCaptures == 1
\* Interceptors created side by side by user code.
MaxInterceptors == 2

\* ------------------------------------------------------------- references
\* JavaScript null.
Null == <<"null">>
\* The transport function found in globalThis.fetch before anything is installed.
NativeFetch == <<"native">>
\* interceptor._wrapFetch.bind(interceptor) of interceptor i.
Wrapper(i) == <<"wrapper", i>>
\* The cleanup closure created by the r-th register() call.
CleanupOf(r) == <<"cleanup", r>>
\* A reference to interceptor i.
IcptRef(i) == <<"icpt", i>>
\* The handler closure of validator r.
HandlerOf(r) == <<"handler", r>>

IsWrapper(f) == Len(f) = 2 /\ f[1] = "wrapper"

Range(s) == {s[n] : n \in DOMAIN s}

\* ------------------------------------------------------------- normalizer
\* Strings are sequences of code points.  The characters the inputs are built from:
Ch == [percent |-> 37, eq |-> 61, semi |-> 59, space |-> 32,
       a |-> 97, two |-> 50, zero |-> 48, slash |-> 47, comma |-> 44,
       colon |-> 58, question |-> 63, hash |-> 35, dot |-> 46]

\* The string literals of the source, as code points.
Lit ==
    [applicationJson |-> <<97, 112, 112, 108, 105, 99, 97, 116, 105, 111, 110, 47, 106, 115, 111, 110>>,
     applicationJsonCharset |-> <<97, 112, 112, 108, 105, 99, 97, 116, 105, 111, 110, 47, 106, 115, 111, 110, 59, 32, 99, 104, 97, 114, 115, 101, 116, 61, 117, 116, 102, 45, 56>>,
     applicationXml |-> <<97, 112, 112, 108, 105, 99, 97, 116, 105, 111, 110, 47, 120, 109, 108>>,
     textXml |-> <<116, 101, 120, 116, 47, 120, 109, 108>>,
     textYaml |-> <<116, 101, 120, 116, 47, 121, 97, 109, 108>>,
     applicationXYaml |-> <<97, 112, 112, 108, 105, 99, 97, 116, 105, 111, 110, 47, 120, 45, 121, 97, 109, 108>>,
     applicationYaml |-> <<97, 112, 112, 108, 105, 99, 97, 116, 105, 111, 110, 47, 121, 97, 109, 108>>,
     textCsv |-> <<116, 101, 120, 116, 47, 99, 115, 118>>,
     textHtml |-> <<116, 101, 120, 116, 47, 104, 116, 109, 108>>,
     textMarkdown |-> <<116, 101, 120, 116, 47, 109, 97, 114, 107, 100, 111, 119, 110>>,
     textXMarkdown |-> <<116, 101, 120, 116, 47, 120, 45, 109, 97, 114, 107, 100, 111, 119, 110>>,
     formUrlencoded |-> <<97, 112, 112, 108, 105, 99, 97, 116, 105, 111, 110, 47, 120, 45, 119, 119, 119, 45, 102, 111, 114, 109, 45, 117, 114, 108, 101, 110, 99, 111, 100, 101, 100>>,
     multipart |-> <<109, 117, 108, 116, 105, 112, 97, 114, 116, 47>>,
     applicationGraphql |-> <<97, 112, 112, 108, 105, 99, 97, 116, 105, 111, 110, 47, 103, 114, 97, 112, 104, 113, 108>>,
     applicationXGraphql |-> <<97, 112, 112, 108, 105, 99, 97, 116, 105, 111, 110, 47, 120, 45, 103, 114, 97, 112, 104, 113, 108>>,
     text |-> <<116, 101, 120, 116, 47>>,
     image |-> <<105, 109, 97, 103, 101, 47>>,
     audio |-> <<97, 117, 100, 105, 111, 47>>,
     video |-> <<118, 105, 100, 101, 111, 47>>,
     applicationPdf |-> <<97, 112, 112, 108, 105, 99, 97, 116, 105, 111, 110, 47, 112, 100, 102>>,
     octetStream |-> <<97, 112, 112, 108, 105, 99, 97, 116, 105, 111, 110, 47, 111, 99, 116, 101, 116, 45, 115, 116, 114, 101, 97, 109>>,
     GET |-> <<71, 69, 84>>,
     cookie |-> <<99, 111, 111, 107, 105, 101>>,
     Cookie |-> <<67, 111, 111, 107, 105, 101>>,
     contentType |-> <<99, 111, 110, 116, 101, 110, 116, 45, 116, 121, 112, 101>>,
     ContentType |-> <<67, 111, 110, 116, 101, 110, 116, 45, 84, 121, 112, 101>>,
     Blob |-> <<91, 66, 108, 111, 98, 93>>,
     ArrayBuffer |-> <<91, 65, 114, 114, 97, 121, 66, 117, 102, 102, 101, 114, 93>>,
     ArrayBufferView |-> <<91, 65, 114, 114, 97, 121, 66, 117, 102, 102, 101, 114, 86, 105, 101, 119, 93>>,
     Binary |-> <<91, 66, 105, 110, 97, 114, 121, 93>>,
     ReadableStream |-> <<91, 82, 101, 97, 100, 97, 98, 108, 101, 83, 116, 114, 101, 97, 109, 93>>,
     unknown |-> <<91, 117, 110, 107, 110, 111, 119, 110, 93>>,
     type |-> <<116, 121, 112, 101>>,
     size |-> <<115, 105, 122, 101>>,
     name |-> <<110, 97, 109, 101>>,
     byteLength |-> <<98, 121, 116, 101, 76, 101, 110, 103, 116, 104>>,
     mediaType |-> <<99, 111, 110, 116, 101, 110, 116, 84, 121, 112, 101>>,
     null |-> <<110, 117, 108, 108>>,
     true |-> <<116, 114, 117, 101>>,
     false |-> <<102, 97, 108, 115, 101>>,
     undefined |-> <<117, 110, 100, 101, 102, 105, 110, 101, 100>>,
     array |-> <<97, 114, 114, 97, 121>>,
     perSchema |-> <<112, 101, 114, 32, 115, 99, 104, 101, 109, 97>>,
     body |-> <<98, 111, 100, 121>>,
     expected |-> <<58, 32, 101, 120, 112, 101, 99, 116, 101, 100, 32>>,
     received |-> <<44, 32, 114, 101, 99, 101, 105, 118, 101, 100, 32>>,
     validationFailed |-> <<58, 32, 118, 97, 108, 105, 100, 97, 116, 105, 111, 110, 32, 102, 97, 105, 108, 101, 100>>,
     logPrefix |-> <<91, 99, 111, 110, 116, 114, 97, 99, 116, 45, 118, 97, 108, 105, 100, 97, 116, 111, 114, 93, 32>>,
     logItem |-> <<32, 32, 45, 32>>,
     lineSeparator |-> <<59, 32>>,
     colonSpace |-> <<58, 32>>,
     objectObject |-> <<91, 111, 98, 106, 101, 99, 116, 32, 79, 98, 106, 101, 99, 116, 93>>,
     length |-> <<108, 101, 110, 103, 116, 104>>]

\* A thrown exception / a returned value of a function that may throw.
Thrown(name) == [ok |-> FALSE, error |-> name]
Returned(v) == [ok |-> TRUE, value |-> v]

IsHex(c) == c \in 48..57 \/ c \in 65..70 \/ c \in 97..102
HexVal(c) == IF c \in 48..57 THEN c - 48 ELSE IF c \in 65..70 THEN c - 55 ELSE c - 87

\* The byte written as %XY at position p of s, or -1 when there is no such escape.
EscapedByte(s, p) ==
    IF p + 2 <= Len(s) /\ s[p] = Ch.percent /\ IsHex(s[p + 1]) /\ IsHex(s[p + 2])
    THEN 16 * HexVal(s[p + 1]) + HexVal(s[p + 2])
    ELSE -1

\* Number of bytes of the UTF-8 sequence a lead byte opens (0: not a lead byte).
Utf8Length(b) ==
    IF b < 128 THEN 1
    ELSE IF b \in 194..223 THEN 2
    ELSE IF b \in 224..239 THEN 3
    ELSE IF b \in 240..244 THEN 4
    ELSE 0

\* Whether the escapes at p, p+3, ... form one well-formed UTF-8 sequence of n bytes.
Utf8WellFormed(s, p, n) ==
    LET b1 == EscapedByte(s, p)
        b2 == EscapedByte(s, p + 3)
    IN  /\ \A j \in 1..(n - 1) : EscapedByte(s, p + 3 * j) \in 128..191
        /\ (b1 = 224 => b2 >= 160)
        /\ (b1 = 237 => b2 <= 159)
        /\ (b1 = 240 => b2 >= 144)
        /\ (b1 = 244 => b2 <= 143)

\* The code point of the well-formed n-byte sequence escaped at p.
Utf8CodePoint(s, p, n) ==
    LET b(j) == EscapedByte(s, p + 3 * j)
    IN  IF n = 1 THEN b(0)
        ELSE IF n = 2 THEN (b(0) - 192) * 64 + (b(1) - 128)
        ELSE IF n = 3 THEN (b(0) - 224) * 4096 + (b(1) - 128) * 64 + (b(2) - 128)
        ELSE (b(0) - 240) * 262144 + (b(1) - 128) * 4096 + (b(2) - 128) * 64 + (b(3) - 128)

\* A decoded character followed by the decoding of the rest, unless that threw.
Prepend(c, rest) == IF rest.ok THEN Returned(<<c>> \o rest.value) ELSE rest

\* Length of the UTF-8 sequence escaped at the head of s (0: malformed escape).
EscapeLength(b) == IF b < 0 THEN 0 ELSE Utf8Length(b)

\* decodeURIComponent(s): throws URIError on a malformed escape.
RECURSIVE decodeURIComponent(_)
RECURSIVE DecodeEscape(_, _)
decodeURIComponent(s) ==
    IF s = <<>> THEN Returned(<<>>)
    ELSE IF s[1] # Ch.percent THEN Prepend(s[1], decodeURIComponent(Tail(s)))
    ELSE DecodeEscape(s, EscapeLength(EscapedByte(s, 1)))

\* The escape sequence of n bytes at the head of s, then the rest of s.
DecodeEscape(s, n) ==
    IF n = 0 \/ ~Utf8WellFormed(s, 1, n) THEN Thrown("URIError")
    ELSE Prepend(Utf8CodePoint(s, 1, n), decodeURIComponent(SubSeq(s, 3 * n + 1, Len(s))))

\* Code points String.prototype.trim removes (the ASCII ones).
WhiteSpace == {9, 10, 11, 12, 13, 32}

RECURSIVE TrimStart(_)
TrimStart(s) == IF s # <<>> /\ s[1] \in WhiteSpace THEN TrimStart(Tail(s)) ELSE s

RECURSIVE TrimEnd(_)
TrimEnd(s) ==
    IF s # <<>> /\ s[Len(s)] \in WhiteSpace THEN TrimEnd(SubSeq(s, 1, Len(s) - 1)) ELSE s

\* String.prototype.trim
Trim(s) == TrimEnd(TrimStart(s))

\* String.prototype.indexOf(c), 1-based; 0 when c does not occur.
IndexOf(s, c) ==
    IF \E p \in DOMAIN s : s[p] = c
    THEN CHOOSE p \in DOMAIN s : s[p] = c /\ \A q \in 1..(p - 1) : s[q] # c
    ELSE 0

\* String.prototype.split(c)
RECURSIVE Split(_, _)
RECURSIVE SplitAt(_, _, _)
Split(s, c) == SplitAt(s, c, IndexOf(s, c))

\* The pieces of s, whose first separator c is at p (0: none).
SplitAt(s, c, p) ==
    IF p = 0 THEN <<s>>
    ELSE <<SubSeq(s, 1, p - 1)>> \o Split(SubSeq(s, p + 1, Len(s)), c)

\* result[key] = value on a plain object
Put(m, k, v) == [x \in (DOMAIN m) \cup {k} |-> IF x = k THEN v ELSE m[x]]

\* pair.slice(0, eq).trim() and pair.slice(eq + 1).trim(), eq = pair.indexOf("=")
CookieKey(pair) == Trim(SubSeq(pair, 1, IndexOf(pair, Ch.eq) - 1))
CookieValue(pair) == Trim(SubSeq(pair, IndexOf(pair, Ch.eq) + 1, Len(pair)))

\* The for-loop of parseCookieHeader over pairs[n..], with the result so far.
RECURSIVE CookiePairs(_, _, _)
RECURSIVE CookieAssign(_, _, _, _, _)
CookiePairs(pairs, n, result) ==
    IF n > Len(pairs) THEN Returned(result)
    ELSE IF IndexOf(pairs[n], Ch.eq) = 0 \/ CookieKey(pairs[n]) = <<>>
    THEN CookiePairs(pairs, n + 1, result)
    ELSE CookieAssign(pairs, n, result, decodeURIComponent(CookieKey(pairs[n])),
                      decodeURIComponent(CookieValue(pairs[n])))

\* result[decodeURIComponent(key)] = decodeURIComponent(value), then the next pair.
CookieAssign(pairs, n, result, k, v) ==
    IF ~k.ok THEN k
    ELSE IF ~v.ok THEN v
    ELSE CookiePairs(pairs, n + 1, Put(result, k.value, v.value))

\* An optional value: undefined, or a defined value v.
Undefined == <<>>
Defined(v) == <<v>>

\* v == null: v is null or undefined.
Nullish(v) == v = Null \/ v = Undefined

\* a ?? b
Coalesce(a, b) == IF a # Undefined THEN a ELSE b

\* headers[name] on a plain object
Get(headers, name) == IF name \in DOMAIN headers THEN Defined(headers[name]) ELSE Undefined

\* cookieHeader.split(";").map((s) => s.trim())
TrimAll(parts) == [n \in DOMAIN parts |-> Trim(parts[n])]

\* parseCookieHeader(cookieHeader)
parseCookieHeader(cookieHeader) ==
    IF cookieHeader = Undefined \/ cookieHeader[1] = <<>> THEN Returned(<<>>)
    ELSE CookiePairs(TrimAll(Split(cookieHeader[1], Ch.semi)), 1, <<>>)

\* ------------------------------------------------------------ captured values
\* A JavaScript value as captured: its type, its text (the content of a string,
\* the numeral of a number, true / false) and its members in insertion order (of
\* an object: key and value; of an array: the elements, under the empty key).
Val(type, text, members) == [type |-> type, text |-> text, members |-> members]
Member(key, value) == [key |-> key, value |-> value]
NullValue == Val("null", <<>>, <<>>)
TrueValue == Val("boolean", Lit.true, <<>>)
FalseValue == Val("boolean", Lit.false, <<>>)
StringValue(text) == Val("string", text, <<>>)
NumberValue(text) == Val("number", text, <<>>)
ObjectValue(members) == Val("object", <<>>, members)
ArrayValue(items) == Val("array", <<>>, [n \in DOMAIN items |-> Member(<<>>, items[n])])

\* The decimal numeral of a natural number.
RECURSIVE Numeral(_)
Numeral(n) == IF n < 10 THEN <<48 + n>> ELSE Numeral(n \div 10) \o <<48 + (n % 10)>>

\* o[key] and o[key] = value on a captured object.
HasMember(members, key) == \E n \in DOMAIN members : members[n].key = key
MemberAt(members, key) == CHOOSE n \in DOMAIN members : members[n].key = key
GetMember(v, key) ==
    IF v.type = "object" /\ HasMember(v.members, key)
    THEN Defined(v.members[MemberAt(v.members, key)].value)
    ELSE Undefined
PutMember(members, key, value) ==
    IF HasMember(members, key)
    THEN [members EXCEPT ![MemberAt(members, key)].value = value]
    ELSE Append(members, Member(key, value))

\* The mantissa of a numeral: the part before an exponent.
Mantissa(text) ==
    IF \E p \in DOMAIN text : text[p] \in {69, 101}
    THEN SubSeq(text, 1, (CHOOSE p \in DOMAIN text :
                              text[p] \in {69, 101} /\ \A q \in 1..(p - 1) : text[q] \notin {69, 101}) - 1)
    ELSE text

\* Truthiness of an optional value (undefined, null, false, 0 and "" are falsy).
Falsy(v) ==
    \/ v.type = "null"
    \/ v.type = "boolean" /\ v.text = Lit.false
    \/ v.type = "string" /\ v.text = <<>>
    \/ v.type = "number" /\ \A p \in DOMAIN Mantissa(v.text) : Mantissa(v.text)[p] \in {45, 46, 48}
Truthy(optional) == optional # Undefined /\ ~Falsy(optional[1])

\* String.prototype.toLowerCase (ASCII letters) and startsWith
toLowerCase(s) == [n \in DOMAIN s |-> IF s[n] \in 65..90 THEN s[n] + 32 ELSE s[n]]
StartsWith(s, prefix) == Len(s) >= Len(prefix) /\ SubSeq(s, 1, Len(prefix)) = prefix

\* ------------------------------------------------------------------ JSON.parse
\* What parsing from a position gave: the value and the position after it.
Parsed(value, next) == [ok |-> TRUE, value |-> value, next |-> next]
NotParsed == [ok |-> FALSE, value |-> NullValue, next |-> 0]

\* The code point at position p of s (0 beyond its end).
At(s, p) == IF p \in DOMAIN s THEN s[p] ELSE 0
HasAt(s, p, literal) ==
    p + Len(literal) - 1 <= Len(s) /\ SubSeq(s, p, p + Len(literal) - 1) = literal

JsonWhiteSpace == {9, 10, 13, 32}
RECURSIVE SkipWhiteSpace(_, _)
SkipWhiteSpace(s, p) ==
    IF At(s, p) \in JsonWhiteSpace THEN SkipWhiteSpace(s, p + 1) ELSE p

\* The position after the digits from p on.
RECURSIVE DigitsEnd(_, _)
DigitsEnd(s, p) == IF At(s, p) \in 48..57 THEN DigitsEnd(s, p + 1) ELSE p

\* number = [-] int [frac] [exp]: the position after each part, 0 if malformed.
IntEnd(s, p) ==
    IF At(s, p) = 48 THEN p + 1
    ELSE IF At(s, p) \in 49..57 THEN DigitsEnd(s, p)
    ELSE 0
FracEnd(s, p) ==
    IF p = 0 THEN 0
    ELSE IF At(s, p) # 46 THEN p
    ELSE IF DigitsEnd(s, p + 1) = p + 1 THEN 0
    ELSE DigitsEnd(s, p + 1)
ExpDigits(s, p) == IF DigitsEnd(s, p) = p THEN 0 ELSE DigitsEnd(s, p)
ExpEnd(s, p) ==
    IF p = 0 THEN 0
    ELSE IF At(s, p) \notin {69, 101} THEN p
    ELSE IF At(s, p + 1) \in {43, 45} THEN ExpDigits(s, p + 2)
    ELSE ExpDigits(s, p + 1)
NumberEnd(s, p) == ExpEnd(s, FracEnd(s, IntEnd(s, IF At(s, p) = 45 THEN p + 1 ELSE p)))
ParseNumber(s, p) ==
    IF NumberEnd(s, p) = 0 THEN NotParsed
    ELSE Parsed(NumberValue(SubSeq(s, p, NumberEnd(s, p) - 1)), NumberEnd(s, p))

\* The character a simple escape stands for (0: none).
SimpleEscape(c) ==
    CASE c = 34 -> 34 [] c = 92 -> 92 [] c = 47 -> 47 [] c = 98 -> 8 [] c = 102 -> 12
      [] c = 110 -> 10 [] c = 114 -> 13 [] c = 116 -> 9 [] OTHER -> 0

\* \uXXXX at p (p is the position of the u).
UnicodeEscape(s, p) ==
    /\ At(s, p) = 117
    /\ \A q \in (p + 1)..(p + 4) : q \in DOMAIN s /\ IsHex(s[q])
UnicodeValue(s, p) ==
    4096 * HexVal(s[p + 1]) + 256 * HexVal(s[p + 2]) + 16 * HexVal(s[p + 3]) + HexVal(s[p + 4])

\* The rest of a string literal from p on, text being its content so far.
RECURSIVE ParseString(_, _, _)
ParseString(s, p, text) ==
    IF At(s, p) = 34 THEN Parsed(StringValue(text), p + 1)
    ELSE IF At(s, p) < 32 THEN NotParsed
    ELSE IF At(s, p) # 92 THEN ParseString(s, p + 1, Append(text, s[p]))
    ELSE IF SimpleEscape(At(s, p + 1)) # 0
    THEN ParseString(s, p + 2, Append(text, SimpleEscape(At(s, p + 1))))
    ELSE IF UnicodeEscape(s, p + 1)
    THEN ParseString(s, p + 6, Append(text, UnicodeValue(s, p + 1)))
    ELSE NotParsed

\* A JSON value at p (p is past the white space).
RECURSIVE ParseValue(_, _)
RECURSIVE ParseMembers(_, _, _)
RECURSIVE AfterKey(_, _, _)
RECURSIVE AfterMemberValue(_, _, _, _)
RECURSIVE AfterMember(_, _, _)
RECURSIVE ParseElements(_, _, _)
RECURSIVE AfterElementValue(_, _, _)
RECURSIVE AfterElement(_, _, _)
ParseValue(s, p) ==
    IF HasAt(s, p, Lit.null) THEN Parsed(NullValue, p + 4)
    ELSE IF HasAt(s, p, Lit.true) THEN Parsed(TrueValue, p + 4)
    ELSE IF HasAt(s, p, Lit.false) THEN Parsed(FalseValue, p + 5)
    ELSE IF At(s, p) = 34 THEN ParseString(s, p + 1, <<>>)
    ELSE IF At(s, p) = 123
    THEN IF At(s, SkipWhiteSpace(s, p + 1)) = 125
         THEN Parsed(ObjectValue(<<>>), SkipWhiteSpace(s, p + 1) + 1)
         ELSE ParseMembers(s, SkipWhiteSpace(s, p + 1), <<>>)
    ELSE IF At(s, p) = 91
    THEN IF At(s, SkipWhiteSpace(s, p + 1)) = 93
         THEN Parsed(ArrayValue(<<>>), SkipWhiteSpace(s, p + 1) + 1)
         ELSE ParseElements(s, SkipWhiteSpace(s, p + 1), <<>>)
    ELSE ParseNumber(s, p)

\* The members of an object from p on: "key" : value , ... }
ParseMembers(s, p, members) ==
    IF At(s, p) # 34 THEN NotParsed
    ELSE AfterKey(s, members, ParseString(s, p + 1, <<>>))
AfterKey(s, members, key) ==
    IF ~key.ok \/ At(s, SkipWhiteSpace(s, key.next)) # 58 THEN NotParsed
    ELSE AfterMemberValue(s, members, key.value.text,
             ParseValue(s, SkipWhiteSpace(s, SkipWhiteSpace(s, key.next) + 1)))
AfterMemberValue(s, members, key, v) ==
    IF ~v.ok THEN NotParsed
    ELSE AfterMember(s, PutMember(members, key, v.value), SkipWhiteSpace(s, v.next))
AfterMember(s, members, p) ==
    IF At(s, p) = 44 THEN ParseMembers(s, SkipWhiteSpace(s, p + 1), members)
    ELSE IF At(s, p) = 125 THEN Parsed(ObjectValue(members), p + 1)
    ELSE NotParsed

\* The elements of an array from p on: value , ... ]
ParseElements(s, p, items) == AfterElementValue(s, items, ParseValue(s, p))
AfterElementValue(s, items, v) ==
    IF ~v.ok THEN NotParsed
    ELSE AfterElement(s, Append(items, v.value), SkipWhiteSpace(s, v.next))
AfterElement(s, items, p) ==
    IF At(s, p) = 44 THEN ParseElements(s, SkipWhiteSpace(s, p + 1), items)
    ELSE IF At(s, p) = 93 THEN Parsed(ArrayValue(items), p + 1)
    ELSE NotParsed

\* JSON.parse(text): the value, or SyntaxError.
JsonEnd(text, r) ==
    IF r.ok /\ SkipWhiteSpace(text, r.next) > Len(text) THEN Returned(r.value)
    ELSE Thrown("SyntaxError")
JSONparse(text) == JsonEnd(text, ParseValue(text, SkipWhiteSpace(text, 1)))

\* ------------------------------------------------------------------- headers
\* A headers source: undefined, a plain object, or a Headers instance; entries
\* is the mapping from header name to value (of a Headers instance: as its
\* iterator yields it).
HeadersSource(kind, entries) == [kind |-> kind, entries |-> entries]
NoHeaders == HeadersSource("undefined", <<>>)
PlainHeaders(entries) == HeadersSource("record", entries)

\* new Headers(init): names are lower-cased (init holds no two names that are
\* equal up to letter case).
NewHeaders(init) ==
    HeadersSource("Headers",
        [name \in {toLowerCase(k) : k \in DOMAIN init} |->
            init[CHOOSE k \in DOMAIN init : toLowerCase(k) = name]])

\* headersToRecord(headers)
headersToRecord(headers) == IF headers.kind = "undefined" THEN <<>> ELSE headers.entries

\* getContentType(headers)
getContentType(headers) == Coalesce(Get(headers, Lit.contentType), Get(headers, Lit.ContentType))

\* isJsonContentType(contentType)
isJsonContentType(contentType) ==
    /\ contentType # Undefined
    /\ contentType[1] # <<>>
    /\ StartsWith(toLowerCase(Trim(contentType[1])), Lit.applicationJson)

\* getContentTypeMedia(contentType)
getContentTypeMedia(contentType) ==
    IF contentType = Undefined \/ contentType[1] = <<>> THEN <<>>
    ELSE Split(toLowerCase(Trim(contentType[1])), Ch.semi)[1]

\* The chain of comparisons of inferBodyKindFromContentType on the media type.
MediaKind(media) ==
    IF media = <<>> THEN "unknown"
    ELSE IF media \in {Lit.applicationJson, Lit.applicationJsonCharset} THEN "json"
    ELSE IF media \in {Lit.applicationXml, Lit.textXml} THEN "xml"
    ELSE IF media \in {Lit.textYaml, Lit.applicationXYaml, Lit.applicationYaml} THEN "yaml"
    ELSE IF media = Lit.textCsv THEN "csv"
    ELSE IF media = Lit.textHtml THEN "html"
    ELSE IF media \in {Lit.textMarkdown, Lit.textXMarkdown} THEN "markdown"
    ELSE IF media = Lit.formUrlencoded THEN "form"
    ELSE IF StartsWith(media, Lit.multipart) THEN "multipart"
    ELSE IF media \in {Lit.applicationGraphql, Lit.applicationXGraphql} THEN "graphql"
    ELSE IF StartsWith(media, Lit.text) THEN "text"
    ELSE IF \/ StartsWith(media, Lit.image)
            \/ StartsWith(media, Lit.audio)
            \/ StartsWith(media, Lit.video)
            \/ media = Lit.applicationPdf
            \/ StartsWith(media, Lit.octetStream)
    THEN "binary"
    ELSE "unknown"

\* inferBodyKindFromContentType(contentType)
inferBodyKindFromContentType(contentType) == MediaKind(getContentTypeMedia(contentType))

\* -------------------------------------------------------------------- bodies
\* A body source (init.body): null or undefined, a string (text), a
\* URLSearchParams or FormData (entries), a Blob (type, size), an ArrayBuffer or
\* a view on one (size), a ReadableStream.
BodySource(kind, text, entries, type, size) ==
    [kind |-> kind, text |-> text, entries |-> entries, type |-> type, size |-> size]
NoBody == BodySource("null", <<>>, <<>>, <<>>, 0)
StringBody(text) == BodySource("string", text, <<>>, <<>>, 0)

\* An entry of a FormData or URLSearchParams: a string value, or a File with
\* its name, type, size and content.
TextEntry(key, text) ==
    [key |-> key, file |-> FALSE, text |-> text, name |-> <<>>, type |-> <<>>, size |-> 0,
     bytes |-> <<>>]
FileEntry(key, name, type, bytes) ==
    [key |-> key, file |-> TRUE, text |-> <<>>, name |-> name, type |-> type,
     size |-> Len(bytes), bytes |-> bytes]

\* { name: value.name, type: value.type, size: value.size }
FileDescriptor(entry) ==
    ObjectValue(<<Member(Lit.name, StringValue(entry.name)),
                  Member(Lit.type, StringValue(entry.type)),
                  Member(Lit.size, NumberValue(Numeral(entry.size)))>>)

\* Array.prototype.push on a captured array.
Push(array, value) == Val("array", <<>>, Append(array.members, Member(<<>>, value)))

\* One turn of the loop over FormData entries: result after the entry, existing
\* being result[key].
FormEntry(result, entry, existing) ==
    IF entry.file
    THEN PutMember(result, entry.key,
             Push(IF existing # Undefined /\ existing[1].type = "array"
                  THEN existing[1] ELSE ArrayValue(<<>>),
                  FileDescriptor(entry)))
    ELSE IF existing = Undefined
    THEN PutMember(result, entry.key, StringValue(entry.text))
    ELSE IF existing[1].type = "array"
    THEN PutMember(result, entry.key, Push(existing[1], StringValue(entry.text)))
    ELSE PutMember(result, entry.key, ArrayValue(<<existing[1], StringValue(entry.text)>>))

\* The loop of parseBody over body.entries() of a FormData, from the n-th on.
RECURSIVE FormEntries(_, _, _)
FormEntries(entries, n, result) ==
    IF n > Len(entries) THEN result
    ELSE FormEntries(entries, n + 1,
             FormEntry(result, entries[n], GetMember(ObjectValue(result), entries[n].key)))

\* Object.fromEntries(body.entries()) of a URLSearchParams, from the n-th on.
RECURSIVE FromEntries(_, _, _)
FromEntries(entries, n, result) ==
    IF n > Len(entries) THEN result
    ELSE FromEntries(entries, n + 1,
             PutMember(result, entries[n].key, StringValue(entries[n].text)))

\* try { return JSON.parse(body) } catch { return body }
ParsedOrText(text, parsed) == IF parsed.ok THEN parsed.value ELSE StringValue(text)

\* parseBody(body, contentType)
parseBody(body, contentType) ==
    CASE body.kind = "null" -> NullValue
      [] body.kind = "string" ->
            IF isJsonContentType(contentType) THEN ParsedOrText(body.text, JSONparse(body.text))
            ELSE StringValue(body.text)
      [] body.kind = "URLSearchParams" -> ObjectValue(FromEntries(body.entries, 1, <<>>))
      [] body.kind = "FormData" -> ObjectValue(FormEntries(body.entries, 1, <<>>))
      [] body.kind = "Blob" ->
            ObjectValue(<<Member(Lit.Blob, TrueValue), Member(Lit.type, StringValue(body.type)),
                          Member(Lit.size, NumberValue(Numeral(body.size)))>>)
      [] body.kind = "ArrayBuffer" ->
            ObjectValue(<<Member(Lit.ArrayBuffer, TrueValue),
                          Member(Lit.byteLength, NumberValue(Numeral(body.size)))>>)
      [] body.kind = "ArrayBufferView" ->
            ObjectValue(<<Member(Lit.ArrayBufferView, TrueValue),
                          Member(Lit.byteLength, NumberValue(Numeral(body.size)))>>)
      [] body.kind = "ReadableStream" -> StringValue(Lit.ReadableStream)

\* The end of inferRequestBodyKind: the kind by the shape of the parsed body.
RequestShapeKind(parsedBody) ==
    IF parsedBody.type = "null" THEN "empty"
    ELSE IF parsedBody.type = "string" THEN "text"
    ELSE IF /\ parsedBody.type = "object"
            /\ \/ Truthy(GetMember(parsedBody, Lit.Blob))
               \/ Truthy(GetMember(parsedBody, Lit.ArrayBuffer))
               \/ Truthy(GetMember(parsedBody, Lit.ArrayBufferView))
    THEN "binary"
    ELSE "unknown"

\* (the content type is looked at before the kind of the body source)
InferByContentTypeFirst(contentType, bodySource, parsedBody) ==
    IF bodySource.kind = "null" THEN "empty"
    ELSE IF inferBodyKindFromContentType(contentType) # "unknown"
    THEN inferBodyKindFromContentType(contentType)
    ELSE IF bodySource.kind = "ReadableStream" THEN "stream"
    ELSE IF bodySource.kind = "FormData" THEN "multipart"
    ELSE IF bodySource.kind = "URLSearchParams" THEN "form"
    ELSE IF bodySource.kind \in {"Blob", "ArrayBuffer", "ArrayBufferView"} THEN "binary"
    ELSE RequestShapeKind(parsedBody)

\* inferRequestBodyKind(contentType, bodySource, parsedBody)
inferRequestBodyKind(contentType, bodySource, parsedBody) ==
    IF bodySource.kind = "null" THEN "empty"
    ELSE IF bodySource.kind = "ReadableStream" THEN "stream"
    ELSE IF bodySource.kind = "FormData" THEN "multipart"
    ELSE IF bodySource.kind = "URLSearchParams" THEN "form"
    ELSE IF bodySource.kind \in {"Blob", "ArrayBuffer", "ArrayBufferView"} THEN "binary"
    ELSE IF inferBodyKindFromContentType(contentType) # "unknown"
    THEN inferBodyKindFromContentType(contentType)
    ELSE RequestShapeKind(parsedBody)

\* inferResponseBodyKind(contentType, parsedBody)
inferResponseBodyKind(contentType, parsedBody) ==
    IF parsedBody.type = "null" THEN "empty"
    ELSE IF inferBodyKindFromContentType(contentType) # "unknown"
    THEN inferBodyKindFromContentType(contentType)
    ELSE IF parsedBody.type = "string" THEN "text"
    ELSE IF /\ parsedBody.type = "object"
            /\ \/ Truthy(GetMember(parsedBody, Lit.Blob))
               \/ Truthy(GetMember(parsedBody, Lit.Binary))
               \/ GetMember(parsedBody, Lit.byteLength) # Undefined
    THEN "binary"
    ELSE "unknown"

\* A request as handed to fetch(input, init): init.method, init.headers, init.body.
Request(method, headers, body) == [method |-> method, headers |-> headers, body |-> body]

\* The CapturedRequest built from the parts, unless parsing the cookies threw.
CapturedRequest(method, headers, cookies, body, bodyKind) ==
    IF cookies.ok
    THEN Returned([method |-> method, headers |-> headers, cookies |-> cookies.value,
                   body |-> body, bodyKind |-> bodyKind])
    ELSE cookies

\* serializeRequest once the body is parsed.
SerializeParsed(req, headers, contentType, body) ==
    CapturedRequest(Coalesce(req.method, Defined(Lit.GET))[1], headers,
        parseCookieHeader(Coalesce(Get(headers, Lit.cookie), Get(headers, Lit.Cookie))),
        body, inferRequestBodyKind(contentType, req.body, body))

\* serializeRequest once the headers are a record.
SerializeHeaders(req, headers) ==
    SerializeParsed(req, headers, getContentType(headers),
                    parseBody(req.body, getContentType(headers)))

\* serializeRequest(input, init) for an input that is a URL: the captured request,
\* or the exception it throws.
serializeRequest(req) == SerializeHeaders(req, headersToRecord(req.headers))

\* ---------------------------------------------------------- response cookies
\* s.trim().slice(0, eq).trim() and s.trim().slice(eq + 1).split(";")[0].trim(),
\* where eq = s.indexOf("=") is the (1-based) position in the untrimmed s.
SetCookieName(s, eq) == Trim(SubSeq(Trim(s), 1, eq - 1))
SetCookieValue(s, eq) == Trim(Split(SubSeq(Trim(s), eq + 1, Len(Trim(s))), Ch.semi)[1])

\* The for-loop of getResponseCookiesFromHeaders over getSetCookie()[n..].
RECURSIVE SetCookieEntries(_, _, _)
RECURSIVE SetCookieAssign(_, _, _, _, _)
SetCookieEntries(entries, n, result) ==
    IF n > Len(entries) THEN Returned(result)
    ELSE IF IndexOf(entries[n], Ch.eq) = 0
            \/ SetCookieName(entries[n], IndexOf(entries[n], Ch.eq)) = <<>>
    THEN SetCookieEntries(entries, n + 1, result)
    ELSE SetCookieAssign(entries, n, result,
             decodeURIComponent(SetCookieName(entries[n], IndexOf(entries[n], Ch.eq))),
             decodeURIComponent(SetCookieValue(entries[n], IndexOf(entries[n], Ch.eq))))

\* result[decodeURIComponent(name)] = decodeURIComponent(val), then the next entry.
SetCookieAssign(entries, n, result, k, v) ==
    IF ~k.ok THEN k
    ELSE IF ~v.ok THEN v
    ELSE SetCookieEntries(entries, n + 1, Put(result, k.value, v.value))

\* headers.get("set-cookie"): the values joined with ", ", undefined (null) if none.
RECURSIVE JoinValues(_)
JoinValues(entries) ==
    IF Len(entries) = 1 THEN entries[1]
    ELSE entries[1] \o <<Ch.comma, Ch.space>> \o JoinValues(Tail(entries))

HeadersGet(entries) == IF entries = <<>> THEN Undefined ELSE Defined(JoinValues(entries))

\* getResponseCookiesFromHeaders(response.headers): the cookie record, or the
\* exception thrown.  A response's headers are its Set-Cookie values (setCookie)
\* and whether the Headers object has the getSetCookie method (getSetCookie).
getResponseCookiesFromHeaders(response) ==
    IF response.getSetCookie
    THEN SetCookieEntries(response.setCookie, 1, <<>>)
    ELSE parseCookieHeader(HeadersGet(response.setCookie))

\* The synchronous part of serializeResponse(response): response.clone() throws
\* when the body was used, getResponseCookiesFromHeaders may throw; otherwise the
\* function suspends at the body read of the clone.
SerializeResponseStart(bodyUsed, cookies) ==
    IF bodyUsed THEN "failed"
    ELSE IF ~cookies.ok THEN "threw"
    ELSE "reading"

\* ------------------------------------------------------- captured responses
\* A response as serializeResponse finds it: status, the entries of its Headers
\* object other than Set-Cookie, its Set-Cookie values, the text of its body and
\* whether the body was already used.
Response(status, headers, setCookie, getSetCookie, text, bodyUsed) ==
    [status |-> status, headers |-> headers, setCookie |-> setCookie,
     getSetCookie |-> getSetCookie, text |-> text, bodyUsed |-> bodyUsed]

\* response.clone(): a body of its own, not yet read.
Clone(response) == [text |-> response.text, bodyUsed |-> FALSE]

\* Reading a body marks it used, whatever becomes of what was read.
Consumed(body) == [body EXCEPT !.bodyUsed = TRUE]

\* body.json(), body.text() and body.arrayBuffer(): TypeError on a used body.
BodyJson(body) == IF body.bodyUsed THEN Thrown("TypeError") ELSE JSONparse(body.text)
BodyText(body) == IF body.bodyUsed THEN Thrown("TypeError") ELSE Returned(StringValue(body.text))
BodyArrayBuffer(body) ==
    IF body.bodyUsed THEN Thrown("TypeError") ELSE Returned(Len(body.text))

\* try { body = await read } catch { body = null }
OrNull(read) == IF read.ok THEN read.value ELSE NullValue

\* The JSON branch: cloned.json(), and cloned.text() of the same clone if it fails.
JsonOrText(cloned, json) ==
    IF json.ok THEN json.value ELSE OrNull(BodyText(Consumed(cloned)))

\* { "[Binary]": true, contentType: media, size: buf.byteLength }
BinaryDescriptor(media, buf) ==
    IF ~buf.ok THEN NullValue
    ELSE ObjectValue(<<Member(Lit.Binary, TrueValue),
                       Member(Lit.mediaType, StringValue(media)),
                       Member(Lit.size, NumberValue(Numeral(buf.value)))>>)

\* isBinaryResponse
IsBinaryMedia(media) ==
    \/ StartsWith(media, Lit.image)
    \/ StartsWith(media, Lit.audio)
    \/ StartsWith(media, Lit.video)
    \/ media = Lit.applicationPdf
    \/ media = Lit.octetStream

\* The body serializeResponse reads from the clone.
ResponseBody(cloned, contentType) ==
    IF IsBinaryMedia(getContentTypeMedia(contentType))
    THEN BinaryDescriptor(getContentTypeMedia(contentType), BodyArrayBuffer(cloned))
    ELSE IF isJsonContentType(contentType) THEN JsonOrText(cloned, BodyJson(cloned))
    ELSE OrNull(BodyText(cloned))

\* The CapturedResponse built from the parts.
CapturedResponse(response, headers, cookies, contentType, body) ==
    [status |-> response.status, headers |-> headers, cookies |-> cookies,
     body |-> body, bodyKind |-> inferResponseBodyKind(contentType, body),
     contentType |-> contentType]

\* serializeResponse once the clone is made and the cookies are read.
SerializeCloned(response, cloned, headers, cookies, contentType) ==
    IF ~cookies.ok THEN cookies
    ELSE Returned(CapturedResponse(response, headers, cookies.value, contentType,
                                   ResponseBody(cloned, contentType)))

\* serializeResponse(response): what the promise is fulfilled with, or the
\* exception it is rejected with.
serializeResponse(response) ==
    IF response.bodyUsed THEN Thrown("TypeError")
    ELSE SerializeCloned(response, Clone(response), headersToRecord(response.headers),
             getResponseCookiesFromHeaders(response),
             Coalesce(Get(headersToRecord(response.headers), Lit.contentType),
                      Get(headersToRecord(response.headers), Lit.ContentType)))

\* --------------------------------------------------- contracts and matching
\* The eight aspect kinds, in the order the handler checks them.
AspectOrder ==
    << "request-body", "request-query", "request-headers", "request-cookies",
       "response-body", "response-status", "response-headers", "response-cookies" >>

\* The aspects checked against a JSON schema (all but the status).
SchemaKinds == Range(AspectOrder) \ {"response-status"}

\* (no case conversion)
KeepCase(s) == s

\* String.prototype.toUpperCase (ASCII letters)
toUpperCase(s) == [n \in DOMAIN s |-> IF s[n] \in 97..122 THEN s[n] - 32 ELSE s[n]]

\* .filter(Boolean) on the pieces of a split: the empty strings are dropped.
FilterBoolean(parts) == SelectSeq(parts, LAMBDA x : x # <<>>)

\* p.startsWith(":")
StartsWithColon(p) == p # <<>> /\ p[1] = Ch.colon

\* The for-loop of matchPathPattern from index i on (1-based).
RECURSIVE MatchSegments(_, _, _)
MatchSegments(pathSegments, patternSegments, i) ==
    IF i > Len(patternSegments) THEN TRUE
    ELSE IF StartsWithColon(patternSegments[i])
    THEN MatchSegments(pathSegments, patternSegments, i + 1)
    ELSE IF patternSegments[i] # pathSegments[i] THEN FALSE
    ELSE MatchSegments(pathSegments, patternSegments, i + 1)

\* (a comparison that accepts a path longer than the pattern)
MatchPrefix(pathSegments, patternSegments) ==
    IF Len(pathSegments) < Len(patternSegments) THEN FALSE
    ELSE MatchSegments(pathSegments, patternSegments, 1)

\* The comparison of matchPathPattern once both strings are split.
MatchSplit(pathSegments, patternSegments) ==
    IF Len(pathSegments) # Len(patternSegments) THEN FALSE
    ELSE MatchSegments(pathSegments, patternSegments, 1)

\* matchPathPattern(pathname, pattern)
matchPathPattern(pathname, pattern) ==
    MatchSplit(FilterBoolean(Split(pathname, Ch.slash)),
               FilterBoolean(Split(pattern, Ch.slash)))

\* The for-loop of findContract from the n-th contract on.  A contract's method
\* and path are optional values: reading .toUpperCase of an undefined method and
\* .split of an undefined path throws TypeError.  The contract returned is named
\* by its position in the list; 0 is null.
RECURSIVE FindFrom(_, _, _, _)
FindFrom(contracts, normalizedMethod, pathname, n) ==
    IF n > Len(contracts) THEN Returned(0)
    ELSE IF contracts[n].method = Undefined THEN Thrown("TypeError")
    ELSE IF toUpperCase(contracts[n].method[1]) # normalizedMethod
    THEN FindFrom(contracts, normalizedMethod, pathname, n + 1)
    ELSE IF contracts[n].path = Undefined THEN Thrown("TypeError")
    ELSE IF matchPathPattern(pathname, contracts[n].path[1]) THEN Returned(n)
    ELSE FindFrom(contracts, normalizedMethod, pathname, n + 1)

\* (a lookup that returns the last matching contract)
findLastContract(contracts, method, pathname) ==
    Returned(IF \E n \in DOMAIN contracts :
                    FindFrom(<<contracts[n]>>, toUpperCase(method), pathname, 1).value = 1
             THEN CHOOSE n \in DOMAIN contracts :
                    /\ FindFrom(<<contracts[n]>>, toUpperCase(method), pathname, 1).value = 1
                    /\ \A m \in (n + 1)..Len(contracts) :
                          FindFrom(<<contracts[m]>>, toUpperCase(method), pathname, 1).value = 0
             ELSE 0)

\* findContract(contracts, method, pathname)
findContract(contracts, method, pathname) ==
    FindFrom(contracts, toUpperCase(method), pathname, 1)

\* s up to, not including, the first c (all of s when c does not occur).
Before(s, c) == IF IndexOf(s, c) = 0 THEN s ELSE SubSeq(s, 1, IndexOf(s, c) - 1)

\* new URL(trimmed, "http://_").pathname for a reference without scheme and
\* without dot segments: the path part, resolved against the root.
UrlPathname(trimmed) ==
    <<Ch.slash>> \o Before(Before(trimmed, Ch.question), Ch.hash)

\* pathnameFromUrl(url) once url is trimmed.
PathnameOfTrimmed(trimmed) ==
    IF trimmed = <<>> THEN <<Ch.slash>>
    ELSE IF trimmed[1] = Ch.slash THEN Before(trimmed, Ch.question)
    ELSE UrlPathname(trimmed)

\* pathnameFromUrl(url)
pathnameFromUrl(url) == PathnameOfTrimmed(Trim(url))

\* s from the first c on (empty when c does not occur).
From(s, c) == IF IndexOf(s, c) = 0 THEN <<>> ELSE SubSeq(s, IndexOf(s, c), Len(s))

\* u.search, u.hash: empty when nothing follows the "?" or "#".
Component(s) == IF Len(s) <= 1 THEN <<>> ELSE s

\* The ParsedUrl fields that come from the URL's path, query and fragment.
ParsedUrl(pathname, search, fragment) ==
    [pathname |-> pathname, search |-> search, fragment |-> fragment]

\* new URL(trimmed, "http://_") for a reference without scheme, authority and dot
\* segments (the constructor accepts every one of these): the fragment starts at
\* the first "#", the query at the first "?" before it, and the path is resolved
\* against the root.
NewUrl(trimmed) ==
    ParsedUrl(IF trimmed # <<>> /\ trimmed[1] = Ch.slash
              THEN Before(Before(trimmed, Ch.hash), Ch.question)
              ELSE <<Ch.slash>> \o Before(Before(trimmed, Ch.hash), Ch.question),
              Component(From(Before(trimmed, Ch.hash), Ch.question)),
              Component(From(trimmed, Ch.hash)))

\* parseUrl(url) of a string, without a base.
parseUrl(url) ==
    IF url = <<>> THEN ParsedUrl(<<Ch.slash>>, <<>>, <<>>)
    ELSE ParsedUrl(IF NewUrl(Trim(url)).pathname = <<>> THEN <<Ch.slash>>
                   ELSE NewUrl(Trim(url)).pathname,
                   NewUrl(Trim(url)).search, NewUrl(Trim(url)).fragment)

\* ------------------------------------------------------------- validation
\* A JSON value as the schema evaluator sees it: its type and, for an object, its
\* keys.  A schema: the type it requires, the keys it requires of an object (in
\* schema order), and whether the evaluator can compile it.
ErrorItem(message, key) == [message |-> message, key |-> key]
Valid == [valid |-> TRUE, errors |-> <<>>]
Invalid(errors) == [valid |-> FALSE, errors |-> errors]

\* The required keys of the schema from the n-th on that data lacks, one error each
\* (allErrors: true).
RECURSIVE MissingKeys(_, _, _)
MissingKeys(data, required, n) ==
    IF n > Len(required) THEN <<>>
    ELSE IF required[n] \in data.keys THEN MissingKeys(data, required, n + 1)
    ELSE <<ErrorItem("required", required[n])>> \o MissingKeys(data, required, n + 1)

\* validate(data) of a compiled schema: the errors found.
ValidateErrors(data, schema) ==
    IF data.type # schema.type THEN <<ErrorItem("type", "")>>
    ELSE MissingKeys(data, schema.required, 1)

\* The result validateWithSchema builds from the evaluator's errors.
SchemaResult(errors) == IF errors = <<>> THEN Valid ELSE Invalid(errors)

\* validateWithSchema(data, schema): compile throws for a schema that is undefined
\* or does not compile, and the catch block turns that into one generic error.
validateWithSchema(data, schema) ==
    IF schema = Undefined THEN Invalid(<<ErrorItem("compile", "")>>)
    ELSE IF ~schema[1].compiles THEN Invalid(<<ErrorItem("compile", "")>>)
    ELSE SchemaResult(ValidateErrors(data, schema[1]))

\* validateStatusCode(status, allowed)
validateStatusCode(status, allowed) ==
    IF Len(allowed) = 0 \/ status \in Range(allowed) THEN Valid
    ELSE Invalid(<<ErrorItem("status", "")>>)

\* An error of the schema evaluator (an Ajv ErrorObject): instancePath, message,
\* params, and data and schema, which the evaluator sets in verbose mode only.
ErrorObject(instancePath, message, params, data, schema) ==
    [instancePath |-> instancePath, message |-> message, params |-> params,
     data |-> data, schema |-> schema]

\* A ValidationErrorItem; path, received, expectedSchema and params are optional.
ReportItem(path, message, received, expectedSchema, params) ==
    [path |-> path, message |-> message, received |-> received,
     expectedSchema |-> expectedSchema, params |-> params]

\* /^\d+$/.test(seg) and Number(seg)
AllDigits(seg) == seg # <<>> /\ \A n \in DOMAIN seg : seg[n] \in 48..57
RECURSIVE Decimal(_)
Decimal(seg) ==
    IF seg = <<>> THEN 0 ELSE 10 * Decimal(SubSeq(seg, 1, Len(seg) - 1)) + (seg[Len(seg)] - 48)

\* current[key] for a segment of the path: a member of an object, an element or
\* the length of an array.
ValueAtKey(current, seg) ==
    IF current.type = "object" THEN GetMember(current, seg)
    ELSE IF AllDigits(seg)
    THEN (IF Decimal(seg) < Len(current.members)
          THEN Defined(current.members[Decimal(seg) + 1].value) ELSE Undefined)
    ELSE IF seg = Lit.length THEN Defined(NumberValue(Numeral(Len(current.members))))
    ELSE Undefined

\* The for-loop of getValueAtPath from the n-th segment on; current is optional.
RECURSIVE ValueAtSegments(_, _, _)
ValueAtSegments(current, segments, n) ==
    IF n > Len(segments) THEN current
    ELSE IF current = Undefined \/ current[1].type \notin {"object", "array"} THEN Undefined
    ELSE ValueAtSegments(ValueAtKey(current[1], segments[n]), segments, n + 1)

\* getValueAtPath(root, instancePath)
getValueAtPath(root, instancePath) ==
    IF instancePath = <<>> \/ instancePath = <<Ch.slash>> THEN Defined(root)
    ELSE ValueAtSegments(Defined(root), FilterBoolean(Split(instancePath, Ch.slash)), 1)

\* The item validateWithSchema builds from an error e of the evaluator.
MapError(data, e) ==
    ReportItem(IF e.instancePath = <<>> THEN Undefined ELSE Defined(e.instancePath),
               e.message,
               IF e.data # Undefined THEN e.data ELSE getValueAtPath(data, e.instancePath),
               e.schema, e.params)

\* (validate.errors ?? []).map((e) => ...)
MapErrors(data, errors) == [n \in DOMAIN errors |-> MapError(data, errors[n])]

\* The one item of the catch block of validateWithSchema, and of validateStatusCode.
MessageItem(message) == ReportItem(Undefined, message, Undefined, Undefined, Undefined)
StatusItem(message, status, params) ==
    ReportItem(Undefined, message, Defined(status), Undefined, Defined(params))

\* {} as a JSON value.
EmptyObject == [type |-> "object", keys |-> {}]

\* data ?? {}
OrEmptyObject(data) == IF data = Undefined THEN EmptyObject ELSE data[1]

\* A body as the evaluator sees it (an undefined body has type "undefined").
BodyData(body) == IF body = Undefined THEN [type |-> "undefined", keys |-> {}] ELSE body[1]

\* The value the handler hands to the evaluator for a schema aspect.
AspectData(kind, request, response) ==
    CASE kind = "request-body" -> BodyData(request.body)
      [] kind = "request-query" -> OrEmptyObject(request.queryParams)
      [] kind = "request-headers" -> OrEmptyObject(request.headers)
      [] kind = "request-cookies" -> OrEmptyObject(request.cookies)
      [] kind = "response-body" -> BodyData(response.body)
      [] kind = "response-headers" -> OrEmptyObject(response.headers)
      [] kind = "response-cookies" -> OrEmptyObject(response.cookies)

\* (every schema aspect is checked, declared or not)
CheckedAlways(contract, kind) ==
    IF kind = "response-status"
    THEN contract.statusCodes # Undefined /\ Len(contract.statusCodes[1]) > 0
    ELSE TRUE

\* The condition of the handler's if-statement for an aspect: the contract
\* declares a schema for it (for the status: a non-empty list of codes).
Declared(contract, kind) ==
    IF kind = "response-status"
    THEN contract.statusCodes # Undefined /\ Len(contract.statusCodes[1]) > 0
    ELSE contract.schemas[kind] # Undefined

\* const r = validateWithSchema(...) / validateStatusCode(...) for an aspect.
AspectResult(contract, kind, request, response) ==
    IF kind = "response-status"
    THEN validateStatusCode(response.status, contract.statusCodes[1])
    ELSE validateWithSchema(AspectData(kind, request, response), contract.schemas[kind])

\* What a run of the handler did: the violation results built, those handed to
\* onViolation, those handed to logViolation, and the exception it ended with.
Outcome(results, callbacks, logged, thrown) ==
    [results |-> results, callbacks |-> callbacks, logged |-> logged, thrown |-> thrown]
NoOutcome == Outcome(<<>>, <<>>, <<>>, "none")

\* The ContractValidationResult emitViolation builds; c is the position of the
\* matched contract in config.contracts.
ViolationResult(c, request, response, kind, errors) ==
    [valid |-> FALSE, contract |-> c, request |-> request, response |-> response,
     errors |-> errors, kind |-> kind]

\* onViolation: absent ("none"), a callback that returns, or one that throws.
ViolationCallbacks == {"none", "returns", "throws"}

\* emitViolation(contract, request, response, kind, errors, onViolation)
emitViolation(out, result, onViolation) ==
    IF onViolation = "throws"
    THEN Outcome(Append(out.results, result), Append(out.callbacks, result),
                 out.logged, "CallbackError")
    ELSE Outcome(Append(out.results, result),
                 IF onViolation = "none" THEN out.callbacks ELSE Append(out.callbacks, result),
                 Append(out.logged, result), "none")

\* The eight if-statements of the handler from the n-th on.
RECURSIVE CheckFrom(_, _, _, _, _, _, _)
RECURSIVE AfterCheck(_, _, _, _, _, _, _, _)
RECURSIVE AfterEmit(_, _, _, _, _, _, _)
CheckFrom(contract, c, request, response, onViolation, n, out) ==
    IF n > Len(AspectOrder) THEN out
    ELSE IF ~Declared(contract, AspectOrder[n])
    THEN CheckFrom(contract, c, request, response, onViolation, n + 1, out)
    ELSE AfterCheck(contract, c, request, response, onViolation, n, out,
                    AspectResult(contract, AspectOrder[n], request, response))

\* if (!r.valid) emitViolation(...)
AfterCheck(contract, c, request, response, onViolation, n, out, r) ==
    IF r.valid THEN CheckFrom(contract, c, request, response, onViolation, n + 1, out)
    ELSE AfterEmit(contract, c, request, response, onViolation, n,
             emitViolation(out, ViolationResult(c, request, response, AspectOrder[n], r.errors),
                           onViolation))

\* An exception of emitViolation leaves the handler; otherwise the next aspect.
AfterEmit(contract, c, request, response, onViolation, n, out) ==
    IF out.thrown # "none" THEN out
    ELSE CheckFrom(contract, c, request, response, onViolation, n + 1, out)

\* The handler once findContract has returned or thrown.
HandleFound(contracts, onViolation, request, response, found) ==
    IF ~found.ok THEN Outcome(<<>>, <<>>, <<>>, found.error)
    ELSE IF found.value = 0 THEN NoOutcome
    ELSE CheckFrom(contracts[found.value], found.value, request, response, onViolation,
                   1, NoOutcome)

\* handler(payload) of the validator created with (config, options).
handler(contracts, onViolation, payload) ==
    IF payload.request = Undefined THEN NoOutcome
    ELSE HandleFound(contracts, onViolation, payload.request[1], payload.response,
             findContract(contracts, payload.request[1].method,
                          pathnameFromUrl(payload.request[1].url)))

\* ------------------------------------------------------------- reporting
\* How the kinds of violation, the labels of the sample contracts and the results
\* of typeof are spelled.
Spelled(s) ==
    CASE s = "A" -> <<65>>
      [] s = "B" -> <<66>>
      [] s = "request-body" -> <<114, 101, 113, 117, 101, 115, 116, 45, 98, 111, 100, 121>>
      [] s = "request-query" -> <<114, 101, 113, 117, 101, 115, 116, 45, 113, 117, 101, 114, 121>>
      [] s = "request-headers" -> <<114, 101, 113, 117, 101, 115, 116, 45, 104, 101, 97, 100, 101, 114, 115>>
      [] s = "request-cookies" -> <<114, 101, 113, 117, 101, 115, 116, 45, 99, 111, 111, 107, 105, 101, 115>>
      [] s = "response-body" -> <<114, 101, 115, 112, 111, 110, 115, 101, 45, 98, 111, 100, 121>>
      [] s = "response-status" -> <<114, 101, 115, 112, 111, 110, 115, 101, 45, 115, 116, 97, 116, 117, 115>>
      [] s = "response-headers" -> <<114, 101, 115, 112, 111, 110, 115, 101, 45, 104, 101, 97, 100, 101, 114, 115>>
      [] s = "response-cookies" -> <<114, 101, 115, 112, 111, 110, 115, 101, 45, 99, 111, 111, 107, 105, 101, 115>>
      [] s = "string" -> <<115, 116, 114, 105, 110, 103>>
      [] s = "number" -> <<110, 117, 109, 98, 101, 114>>
      [] s = "boolean" -> <<98, 111, 111, 108, 101, 97, 110>>
      [] s = "object" -> <<111, 98, 106, 101, 99, 116>>

\* kindLabel(kind) for a kind that is set: kind.replace(/-/g, " ")
kindLabel(kind) ==
    [n \in DOMAIN Spelled(kind) |-> IF Spelled(kind)[n] = 45 THEN Ch.space ELSE Spelled(kind)[n]]

\* formatViolationSummary(result) for result = {request, contract, kind, ...}
formatViolationSummary(contract, request, kind) ==
    request.method \o <<Ch.space>>
        \o (IF contract.label # Undefined THEN Spelled(contract.label[1]) ELSE contract.path[1])
        \o <<Ch.space>> \o kindLabel(kind)

\* Array.prototype.join(separator)
RECURSIVE Join(_, _)
Join(parts, separator) ==
    IF parts = <<>> THEN <<>>
    ELSE IF Len(parts) = 1 THEN parts[1]
    ELSE parts[1] \o separator \o Join(Tail(parts), separator)

\* String(value) of a captured value.
RECURSIVE String(_)
String(v) ==
    CASE v.type = "null" -> Lit.null
      [] v.type = "object" -> Lit.objectObject
      [] v.type = "array" ->
            Join([n \in DOMAIN v.members |->
                     IF v.members[n].value.type = "null" THEN <<>>
                     ELSE String(v.members[n].value)], <<Ch.comma>>)
      [] OTHER -> v.text

\* formatReceivedType(value); value is optional (undefined or a captured value).
formatReceivedType(value) ==
    IF value = Undefined THEN Lit.undefined
    ELSE IF value[1].type = "null" THEN Lit.null
    ELSE IF value[1].type = "array" THEN Lit.array
    ELSE Spelled(value[1].type)

\* The type a schema object names, "per schema" when it names none.
TypeOfSchema(schema) ==
    IF schema = Undefined \/ schema[1].type \notin {"object", "array"} THEN Lit.perSchema
    ELSE IF GetMember(schema[1], Lit.type) = Undefined
            \/ GetMember(schema[1], Lit.type)[1].type = "null"
    THEN Lit.perSchema
    ELSE String(GetMember(schema[1], Lit.type)[1])

\* (an expected type that is read from expectedSchema alone)
ExpectedFromSchemaOnly(e) ==
    IF e.expectedSchema # Undefined /\ e.expectedSchema[1].type = "object"
       /\ GetMember(e.expectedSchema[1], Lit.type) # Undefined
    THEN String(GetMember(e.expectedSchema[1], Lit.type)[1])
    ELSE Lit.perSchema

\* formatExpected(e)
formatExpected(e) == TypeOfSchema(Coalesce(e.expectedSchema, e.params))

\* const loc = path ? (path.startsWith("/") ? path.slice(1) : path) : "body"
ErrorLocation(path) ==
    IF path = Undefined \/ path[1] = <<>> THEN Lit.body
    ELSE IF path[1][1] = Ch.slash THEN Tail(path[1])
    ELSE path[1]

\* loc.replace(/^\//, "")
WithoutLeadingSlash(loc) == IF loc # <<>> /\ loc[1] = Ch.slash THEN Tail(loc) ELSE loc

\* .replace(/\//g, ".") || "body"
DottedOrBody(s) ==
    IF s = <<>> THEN Lit.body
    ELSE [n \in DOMAIN s |-> IF s[n] = Ch.slash THEN Ch.dot ELSE s[n]]

\* formatErrorLine(e)
formatErrorLine(e) ==
    IF e.received # Undefined
    THEN DottedOrBody(WithoutLeadingSlash(ErrorLocation(e.path))) \o Lit.expected
             \o formatExpected(e) \o Lit.received \o formatReceivedType(e.received)
    ELSE DottedOrBody(WithoutLeadingSlash(ErrorLocation(e.path))) \o Lit.colonSpace
             \o e.message

\* errors.map((e) => formatErrorLine(e))
ErrorLines(errors) == [n \in DOMAIN errors |-> formatErrorLine(errors[n])]

\* formatViolationMessage(result) for result = {request, contract, kind, errors};
\* errors is optional.
formatViolationMessage(contract, request, kind, errors) ==
    IF Coalesce(errors, Defined(<<>>))[1] = <<>>
    THEN formatViolationSummary(contract, request, kind) \o Lit.validationFailed
    ELSE formatViolationSummary(contract, request, kind) \o Lit.colonSpace
             \o Join(ErrorLines(errors[1]), Lit.lineSeparator)

\* logViolation(result): the entries written with console.warn, in order.
logViolation(contract, request, kind, errors) ==
    <<Lit.logPrefix \o formatViolationMessage(contract, request, kind, errors)>>
        \o (IF errors # Undefined /\ Len(errors[1]) > 1
            THEN [n \in DOMAIN errors[1] |-> Lit.logItem \o formatErrorLine(errors[1][n])]
            ELSE <<>>)

\* --------------------------------------------------------- configurations
\* A config handed to register(): whether it is null or undefined, its typeof,
\* and its contracts property (whether it is an array, and the array's entries).
Config(isNull, typeof, isArray, items) ==
    [isNull |-> isNull, typeof |-> typeof,
     contracts |-> [isArray |-> isArray, items |-> items]]

\* isValidConfig(config)
isValidConfig(config) ==
    ~config.isNull /\ config.typeof = "object" /\ config.contracts.isArray

\* --------------------------------------------------------- config builder
\* state.current of defineContractConfig before an endpoint is started: {}.  A
\* contract under construction has the fields of a contract; request.body ...
\* response.cookies are schemas[kind], response.statusCodes is statusCodes.
NoCurrent ==
    [method |-> Undefined, path |-> Undefined, label |-> Undefined,
     schemas |-> [k \in SchemaKinds |-> Undefined], statusCodes |-> Undefined]

\* pushContract(contracts, current)
pushContract(contracts, current) ==
    IF current.method # Undefined /\ current.path # Undefined
    THEN Append(contracts, current)
    ELSE contracts

\* defineContractConfig(fn) before fn is called; calls is the history of the
\* calls fn makes, returned the config once defineContractConfig has returned.
NewBuilder ==
    [contracts |-> <<>>, current |-> NoCurrent, port |-> Undefined,
     calls |-> <<>>, returned |-> Undefined]

\* (state.current keeps its label, schemas and status codes)
StartKeeping(b, method, path) ==
    [b EXCEPT !.contracts = pushContract(@, b.current),
              !.current = [b.current EXCEPT !.method = Defined(toUpperCase(method)),
                                            !.path = Defined(path)]]

\* start(method, path)
start(b, method, path) ==
    [b EXCEPT !.contracts = pushContract(@, b.current),
              !.current = [NoCurrent EXCEPT !.method = Defined(toUpperCase(method)),
                                            !.path = Defined(path)]]

\* request(schema), query(schema), requestHeaders(schema), requestCookies(schema),
\* response(schema), responseHeaders(schema), responseCookies(schema)
SetSchema(b, kind, schema) == [b EXCEPT !.current.schemas[kind] = Defined(schema)]

\* responseStatusCodes(codes)
SetStatusCodes(b, codes) == [b EXCEPT !.current.statusCodes = Defined(codes)]

\* label(name)
SetLabel(b, name) == [b EXCEPT !.current.label = Defined(name)]

\* port(portNumber)
SetPort(b, portNumber) == [b EXCEPT !.port = Defined(portNumber)]

\* fn has returned: the last contract is pushed and the config returned.
Finish(b) ==
    [b EXCEPT !.contracts = pushContract(@, b.current),
              !.returned = Defined([port |-> b.port,
                                    contracts |-> pushContract(b.contracts, b.current)])]

VARIABLES
    globalFetch,      \* globalThis.fetch
    currentCleanup,   \* module variable of register.ts
    interceptors,     \* sequence of FetchInterceptor objects, in creation order
    validators,       \* sequence of contract validators; validators[r] belongs to registration r
    lastOp,           \* the lifecycle call that returned last (history)
    calls,            \* the calls of globalThis.fetch made so far, and what became of each
    mq,               \* the microtask queue (FIFO)
    validation,       \* a validator's config and options, and what its functions were
                      \* handed and did (history)
    builder,          \* a run of defineContractConfig: contracts, state.current, the
                      \* calls fn has made (history) and the config returned
    captures          \* what serializeRequest / serializeResponse and the violation
                      \* summary were handed and did (history)

vars == <<globalFetch, currentCleanup, interceptors, validators, lastOp, calls, mq,
          validation, builder, captures>>
lifecycleVars == <<globalFetch, currentCleanup, interceptors, validators, lastOp>>

\* The four shared objects as one value, so that a handler's calls compose.
World == [fetch |-> globalFetch, slot |-> currentCleanup,
          icpts |-> interceptors, vals |-> validators]

\* new FetchInterceptor(options)
NewInterceptor(emitKind) ==
    [installed |-> FALSE, originalFetch |-> Null,
     listeners |-> [request |-> <<>>, response |-> <<>>, error |-> <<>>],
     customEmit |-> emitKind]

\* createContractValidator(config, options)
NewValidator == [interceptorRef |-> Null, handlerRef |-> Null]

\* (an install that does not look at _installed)
InstallUnguarded(w, i) ==
    [w EXCEPT !.icpts[i].originalFetch = w.fetch,
              !.icpts[i].installed = TRUE,
              !.fetch = Wrapper(i)]

\* FetchInterceptor.install()
Install(w, i) ==
    IF w.icpts[i].installed THEN w
    ELSE [w EXCEPT !.icpts[i].originalFetch = w.fetch,
                   !.icpts[i].installed = TRUE,
                   !.fetch = Wrapper(i)]

\* FetchInterceptor.uninstall()
Uninstall(w, i) ==
    IF ~w.icpts[i].installed \/ Nullish(w.icpts[i].originalFetch) THEN w
    ELSE [w EXCEPT !.fetch = w.icpts[i].originalFetch,
                   !.icpts[i].originalFetch = Null,
                   !.icpts[i].installed = FALSE]

\* Set.prototype.add: insertion order is kept, a member is not added twice.
SetAdd(s, cb) == IF cb \in Range(s) THEN s ELSE Append(s, cb)

\* (a delete that removes nothing)
SetDeleteNothing(s, cb) == s

\* Set.prototype.delete
SetDelete(s, cb) == SelectSeq(s, LAMBDA x : x # cb)

\* FetchInterceptor.on(event, callback)
On(w, i, event, cb) ==
    [w EXCEPT !.icpts[i].listeners[event] = SetAdd(@, cb)]

\* FetchInterceptor.off(event, callback)
Off(w, i, event, cb) ==
    [w EXCEPT !.icpts[i].listeners[event] = SetDelete(@, cb)]

\* (an attach that subscribes the handler to error events as well)
AttachToErrors(w, r, i) ==
    IF w.vals[r].interceptorRef # Null THEN w
    ELSE On(On([w EXCEPT !.vals[r].interceptorRef = IcptRef(i),
                         !.vals[r].handlerRef = HandlerOf(r)],
               i, "response", HandlerOf(r)),
            i, "error", HandlerOf(r))

\* validator.attach(interceptor)
Attach(w, r, i) ==
    IF w.vals[r].interceptorRef # Null THEN w
    ELSE On([w EXCEPT !.vals[r].interceptorRef = IcptRef(i),
                      !.vals[r].handlerRef = HandlerOf(r)],
            i, "response", HandlerOf(r))

\* validator.detach()
Detach(w, r) ==
    IF w.vals[r].interceptorRef # Null /\ w.vals[r].handlerRef # Null
    THEN [Off(w, w.vals[r].interceptorRef[2], "response", w.vals[r].handlerRef)
            EXCEPT !.vals[r].interceptorRef = Null,
                   !.vals[r].handlerRef = Null]
    ELSE w

\* The cleanup closure of registration r (it closes over validator r and interceptor r).
Cleanup(w, r) ==
    IF w.slot = Null THEN w
    ELSE [Uninstall(Detach(w, r), r) EXCEPT !.slot = Null]

\* "Replace any existing registration" / the body of unregister().
RunCurrentCleanup(w) ==
    IF w.slot # Null
    THEN [Cleanup(w, w.slot[2]) EXCEPT !.slot = Null]
    ELSE w

\* register(config, options) with a valid config, up to the returned handle.
RegisterWorld(w) ==
    LET r  == Len(w.icpts) + 1
        w1 == RunCurrentCleanup(w)
        w2 == [w1 EXCEPT !.icpts = Append(@, NewInterceptor(<<"none">>)),
                         !.vals = Append(@, NewValidator)]
        w3 == Install(w2, r)
        w4 == Attach(w3, r, r)
    IN  [w4 EXCEPT !.slot = CleanupOf(r)]

\* register(config, options): the exception thrown and the state left behind.
RegisterResult(thrown, w) == [thrown |-> thrown, world |-> w]

\* (a register that does not look at its config)
RegisterUnchecked(w, config) == RegisterResult("none", RegisterWorld(w))

\* register(config, options)
RegisterOutcome(w, config) ==
    IF ~isValidConfig(config) THEN RegisterResult("TypeError", w)
    ELSE IF Len(config.contracts.items) = 0 THEN RegisterResult("TypeError", w)
    ELSE RegisterResult("none", RegisterWorld(w))

SetWorld(w) ==
    /\ globalFetch' = w.fetch
    /\ currentCleanup' = w.slot
    /\ interceptors' = w.icpts
    /\ validators' = w.vals

\* ------------------------------------------------------------ the wrapper
\* A listener passed to on() by user code; it may return or throw when run.
UserListener(n) == <<"user", n>>

\* The emit option of an interceptor: absent ("none"), a function that returns
\* ("returns"), or one that throws when handed a given event.
ThrowsOn(event) == <<"throwsOn", event>>
Events == {"request", "response", "error"}
EmitOptions == {<<"none">>, <<"returns">>} \cup {ThrowsOn(e) : e \in Events}

\* FetchInterceptor._emit(event, payload) for the exchange (k, f): whether the emit
\* option threw, and the microtasks queued, one per listener in insertion order.
Emit(ic, event, k, f) ==
    IF ic.customEmit # <<"none">>
    THEN [threw |-> ic.customEmit = ThrowsOn(event), tasks |-> <<>>]
    ELSE [threw |-> FALSE,
          tasks |-> [n \in DOMAIN ic.listeners[event] |->
                        <<"listener", k, f, event, ic.listeners[event][n]>>]]

\* One invocation of a wrapper: an exchange of interceptor i.  snapshot is the
\* CapturedRequest (capturedRequest of _wrapFetch), log what the exchange did, in order.
Frame(i, st, snap, lg) ==
    [icpt |-> i, state |-> st, value |-> "none", snapshot |-> snap,
     clone |-> "none", cloneBody |-> "none", log |-> lg]

\* Entries of an exchange's log.
\* queued: the number of listener microtasks the emission queued.
Emitted(event, request, queued) ==
    [what |-> "emit", event |-> event, request |-> request, queued |-> queued]
\* attached: the validators subscribed (by their own record) when the event was emitted.
EmittedResponse(request, queued, attached) ==
    [what |-> "emit", event |-> "response", request |-> request, queued |-> queued,
     attached |-> attached]
Ran(event, cb, request) == [what |-> "run", event |-> event, cb |-> cb, request |-> request]
EmittedError(request, queued, error) ==
    [what |-> "emit", event |-> "error", request |-> request, queued |-> queued,
     error |-> error]
Settled == [what |-> "settled"]
Normalized == [what |-> "normalized"]

\* (a capture path that reads the response itself)
CaptureReadsOriginal == "original"

\* Which object serializeResponse reads the body from: `cloned`.
CaptureReadTarget == "clone"

\* The result of the synchronous part of a call: the exchanges started, the
\* microtasks queued, the exception thrown ("none": a promise was returned) and
\* how often the transport was invoked.
SyncResult(frames, tasks, thrown, issued) ==
    [frames |-> frames, tasks |-> tasks, thrown |-> thrown, issued |-> issued]

\* The synchronous part of calling fn(input, init) as the exchange chain of call k
\* from depth d on, nested through every saved original down to the transport.
RECURSIVE InvokeSync(_, _, _, _, _, _)
RECURSIVE WrapFetchSync(_, _, _, _, _, _, _, _)
RECURSIVE WrapFetchForward(_, _, _, _)
InvokeSync(icpts, fn, req, k, d, fuel) ==
    IF fn = NativeFetch THEN SyncResult(<<>>, <<>>, "none", 1)
    ELSE IF Nullish(fn) THEN SyncResult(<<>>, <<>>, "TypeError", 0)
    ELSE IF fuel = 0 THEN SyncResult(<<>>, <<>>, "RangeError", 0)
    ELSE WrapFetchSync(icpts, fn[2], req, k, d, fuel, serializeRequest(req),
                       Emit(icpts[fn[2]], "request", k, d))

\* _wrapFetch of interceptor i up to `return originalFetch(input, init).then(...)`:
\* captured is what serializeRequest did, em what emitting the request event did.
WrapFetchSync(icpts, i, req, k, d, fuel, captured, em) ==
    IF ~captured.ok
    THEN SyncResult(<<Frame(i, "threw", Undefined, <<>>)>>, <<>>, captured.error, 0)
    ELSE IF em.threw
    THEN SyncResult(<<Frame(i, "threw", Defined(captured.value),
                            <<Emitted("request", Defined(captured.value), 0)>>)>>,
                    <<>>, "EmitError", 0)
    ELSE WrapFetchForward(i, Defined(captured.value), em,
             InvokeSync(icpts, icpts[i].originalFetch, req, k, d + 1, fuel - 1))

\* (a wrapper that forwards the call without emitting the request event)
WrapFetchForwardNoRequestEvent(i, snap, em, inner) ==
    [frames |-> <<Frame(i, IF inner.thrown = "none" THEN "pending" ELSE "threw", snap, <<>>)>>
                    \o inner.frames,
     tasks |-> inner.tasks, thrown |-> inner.thrown, issued |-> inner.issued]

\* originalFetch(input, init) was called and did what inner says.
WrapFetchForward(i, snap, em, inner) ==
    SyncResult(<<Frame(i, IF inner.thrown = "none" THEN "pending" ELSE "threw",
                       snap, <<Emitted("request", snap, Len(em.tasks))>>)>> \o inner.frames,
               em.tasks \o inner.tasks, inner.thrown, inner.issued)

\* Requests the calls are made with: a well-formed cookie header ("a=2"), and one
\* with invalid percent-encoding ("a=%").
SampleRequests ==
    { Request(Undefined, PlainHeaders(Put(<<>>, Lit.cookie, <<Ch.a, Ch.eq, Ch.two>>)), NoBody),
      Request(Undefined, PlainHeaders(Put(<<>>, Lit.cookie, <<Ch.a, Ch.eq, Ch.percent>>)), NoBody) }

\* Bodies of the responses the transport answers with.
ResponseBodies == {"hello"}

\* Set-Cookie values of the responses: a well-formed one ("a=2"), and one with
\* invalid percent-encoding ("a=%").
SampleSetCookies == { <<Ch.a, Ch.eq, Ch.two>>, <<Ch.a, Ch.eq, Ch.percent>> }

\* The responses the transport answers with: the well-formed cookie on a Headers
\* object without getSetCookie, the other one on a Headers object with it.
SampleResponses ==
    { [body |-> b, setCookie |-> <<c>>, getSetCookie |-> (c[3] = Ch.percent)] :
          b \in ResponseBodies, c \in SampleSetCookies }

\* Strings the contracts and the captured requests are built from.
Str ==
    [GET |-> <<71, 69, 84>>, get |-> <<103, 101, 116>>,
     POST |-> <<80, 79, 83, 84>>, post |-> <<112, 111, 115, 116>>,
     api |-> <<97, 112, 105>>, users |-> <<117, 115, 101, 114, 115>>,
     Users |-> <<85, 115, 101, 114, 115>>, n42 |-> <<52, 50>>,
     posts |-> <<112, 111, 115, 116, 115>>, id |-> <<Ch.colon, 105, 100>>,
     PUT |-> <<80, 85, 84>>, PATCH |-> <<80, 65, 84, 67, 72>>,
     DELETE |-> <<68, 69, 76, 69, 84, 69>>,
     top |-> <<116, 111, 112>>, x1 |-> <<120, 61, 49>>]

\* builder.get(path), .post(path), .put(path), .patch(path), .delete(path)
EndpointMethods == {"get", "post", "put", "patch", "delete"}
StartEndpoint(b, name, path) ==
    CASE name = "get" -> start(b, Str.GET, path)
      [] name = "post" -> start(b, Str.POST, path)
      [] name = "put" -> start(b, Str.PUT, path)
      [] name = "patch" -> start(b, Str.PATCH, path)
      [] name = "delete" -> start(b, Str.DELETE, path)

\* "/" followed by the segments joined with "/".
RECURSIVE Slashed(_)
Slashed(segments) ==
    IF segments = <<>> THEN <<>>
    ELSE <<Ch.slash>> \o segments[1] \o Slashed(Tail(segments))

\* "/api/users/42", "/api/users/:id", ...
PathUser42 == Slashed(<<Str.api, Str.users, Str.n42>>)
PathUser42Posts == Slashed(<<Str.api, Str.users, Str.n42, Str.posts>>)
PathUsers == Slashed(<<Str.api, Str.users>>)
PathUpperUsers == Slashed(<<Str.api, Str.Users>>)
PatternUserId == Slashed(<<Str.api, Str.users, Str.id>>)

\* Pathnames handed to the matcher: the above, "/api/Users/42",
\* "api/users/42/", "//api/users/42" and "/".
SamplePaths ==
    { PathUser42, PathUser42Posts, PathUsers, PathUpperUsers,
      Slashed(<<Str.api, Str.Users, Str.n42>>),
      Tail(PathUser42) \o <<Ch.slash>>,
      <<Ch.slash>> \o PathUser42,
      <<Ch.slash>> }

\* URLs of captured requests: "/api/users", "/api/users?x=1", "/api/users#top",
\* "/api/users?x=1#top" and "api/users#top".
SampleUrls ==
    { PathUsers,
      PathUsers \o <<Ch.question>> \o Str.x1,
      PathUsers \o <<Ch.hash>> \o Str.top,
      PathUsers \o <<Ch.question>> \o Str.x1 \o <<Ch.hash>> \o Str.top,
      Tail(PathUsers) \o <<Ch.hash>> \o Str.top }

\* Path patterns: "/api/users/:id", "/api/users", "api/users/:id/" and
\* "/api/users/42".
SamplePatterns ==
    { PatternUserId, PathUsers, Tail(PatternUserId) \o <<Ch.slash>>, PathUser42 }

SampleMethods == {Str.GET, Str.get, Str.POST, Str.post}

\* A schema requiring an object with the key "x"; a value that conforms to it
\* and one that does not.
NeedsX == [type |-> "object", required |-> <<"x">>, compiles |-> TRUE]
HasX == [type |-> "object", keys |-> {"x"}]

\* A schema the evaluator cannot compile (ajv.compile throws).
Uncompilable == [NeedsX EXCEPT !.compiles = FALSE]

\* The status codes a sample contract allows.
AllowedStatus == <<200, 201>>

\* A contract, as built by the config builder: method, path, label, the aspects
\* it declares a schema for, and its allowed status codes.
Contract(method, path, label, kinds, statusCodes) ==
    [method |-> method, path |-> path, label |-> label,
     schemas |-> [k \in SchemaKinds |-> IF k \in kinds THEN Defined(NeedsX) ELSE Undefined],
     statusCodes |-> statusCodes]

\* A contract for an endpoint that declares nothing to check.
Endpoint(method, path, label) ==
    Contract(Defined(method), Defined(path), Defined(label), {}, Undefined)

\* GET /api/users/:id declaring the given aspects.
ContractDeclaring(kinds) ==
    Contract(Defined(Str.GET), Defined(PatternUserId), Undefined, kinds,
             IF "response-status" \in kinds THEN Defined(AllowedStatus) ELSE Undefined)

\* Contract lists for the matcher: one contract; two overlapping contracts in
\* both orders; two contracts with the same method and path; a contract that
\* does not match before one that does.
SampleMatchLists ==
    { <<Endpoint(Str.GET, PatternUserId, "A")>>,
      <<Endpoint(Str.post, PathUsers, "A")>>,
      <<Endpoint(Str.GET, PatternUserId, "A"), Endpoint(Str.GET, PathUser42, "B")>>,
      <<Endpoint(Str.get, PathUser42, "A"), Endpoint(Str.GET, PatternUserId, "B")>>,
      <<Endpoint(Str.GET, PatternUserId, "A"), Endpoint(Str.GET, PatternUserId, "B")>>,
      <<Endpoint(Str.POST, PatternUserId, "A"), Endpoint(Str.GET, PatternUserId, "B")>> }

\* GET /api/users/:id declaring the given aspects, the schema of the aspect
\* broken being one the evaluator cannot compile.
ContractBroken(kinds, broken) ==
    [ContractDeclaring(kinds) EXCEPT !.schemas[broken] = Defined(Uncompilable)]

\* Contract lists of the validators observed: every single aspect declared alone,
\* none, all, two, an empty status list, two overlapping contracts, and contracts
\* with a schema that does not compile (alone; before and after other aspects).
WellFormedLists ==
    { <<ContractDeclaring({k})>> : k \in Range(AspectOrder) }
    \cup { <<ContractDeclaring({})>>,
           <<ContractDeclaring(Range(AspectOrder))>>,
           <<ContractDeclaring({"response-body", "response-headers"})>>,
           <<Contract(Defined(Str.GET), Defined(PatternUserId), Undefined, {}, Defined(<<>>))>>,
           <<ContractDeclaring({"request-body"}), ContractDeclaring(Range(AspectOrder))>>,
           <<ContractBroken({"request-query"}, "request-query")>>,
           <<ContractBroken({"request-body", "request-query", "response-body",
                             "response-status"}, "request-query")>> }

\* Contract lists with an entry that lacks its method, or its path.
MalformedLists ==
    { <<Contract(Undefined, Defined(PatternUserId), Undefined, {"response-body"}, Undefined)>>,
      <<Contract(Defined(Str.GET), Undefined, Undefined, {"response-body"}, Undefined)>> }

\* Whether every entry of a contract list has a method and a path.
WellFormed(contracts) ==
    \A n \in DOMAIN contracts :
        contracts[n].method # Undefined /\ contracts[n].path # Undefined

\* Configs handed to register(): null, undefined, a string, an object without
\* a contracts array, and objects with a contracts array: empty, well-formed,
\* malformed.
SampleConfigs ==
    { Config(TRUE, "object", FALSE, <<>>),
      Config(TRUE, "undefined", FALSE, <<>>),
      Config(FALSE, "string", FALSE, <<>>),
      Config(FALSE, "object", FALSE, <<>>) }
    \cup { Config(FALSE, "object", TRUE, items) :
              items \in {<<>>} \cup WellFormedLists \cup MalformedLists }

\* The config the pipelines with exchanges in flight are registered with (what
\* register() does with an accepted config does not depend on its contracts).
PlainConfigs == {Config(FALSE, "object", TRUE, <<ContractDeclaring({})>>)}

\* A captured exchange for GET url whose aspects in badKinds do not conform to
\* NeedsX / AllowedStatus and whose other aspects do.
Payload(url, badKinds) ==
    LET data(kind) == Defined(IF kind \in badKinds THEN EmptyObject ELSE HasX)
    IN  [request |-> Defined([method |-> Str.GET, url |-> url,
                              body |-> data("request-body"),
                              queryParams |-> data("request-query"),
                              headers |-> data("request-headers"),
                              cookies |-> data("request-cookies")]),
         response |-> [body |-> data("response-body"),
                       status |-> IF "response-status" \in badKinds THEN 404 ELSE 200,
                       headers |-> data("response-headers"),
                       cookies |-> data("response-cookies")]]

\* The response events a validator is handed.
SamplePayloads ==
    { Payload(PathUser42, {}),
      Payload(PathUser42, Range(AspectOrder)),
      Payload(PathUser42, {"response-body", "response-headers"}),
      Payload(PathUser42, {"response-status"}),
      Payload(PathUsers, Range(AspectOrder)) }

\* Strings the captured messages are built from: content types, header names in
\* other letter case, body texts ({"x":1}, oops, the empty string), form keys.
Sample ==
    [textPlain |-> <<116, 101, 120, 116, 47, 112, 108, 97, 105, 110>>,
     multipartFormData |-> <<109, 117, 108, 116, 105, 112, 97, 114, 116, 47, 102, 111, 114, 109, 45, 100, 97, 116, 97>>,
     applicationJsonl |-> <<97, 112, 112, 108, 105, 99, 97, 116, 105, 111, 110, 47, 106, 115, 111, 110, 108>>,
     imagePng |-> <<105, 109, 97, 103, 101, 47, 112, 110, 103>>,
     upperContentType |-> <<67, 79, 78, 84, 69, 78, 84, 45, 84, 89, 80, 69>>,
     upperCookie |-> <<67, 79, 79, 75, 73, 69>>,
     object |-> <<123, 34, 120, 34, 58, 49, 125>>,
     invalid |-> <<111, 111, 112, 115>>,
     empty |-> <<>>,
     field |-> <<102, 105, 101, 108, 100>>,
     file |-> <<102, 105, 108, 101>>,
     fileName |-> <<97, 46, 112, 110, 103>>]

\* Body sources of the requests: none, strings (empty, JSON, not JSON, "null"),
\* a URLSearchParams, a FormData with one text field and one file, a Blob, an
\* ArrayBuffer, a view, a stream.
MultipartBody ==
    BodySource("FormData", <<>>,
        <<TextEntry(Sample.field, Sample.invalid),
          FileEntry(Sample.file, Sample.fileName, Sample.imagePng, <<1, 2, 3>>)>>,
        <<>>, 0)
SampleBodies ==
    { NoBody, StringBody(Sample.empty), StringBody(Sample.object), StringBody(Sample.invalid),
      StringBody(Lit.null),
      BodySource("URLSearchParams", <<>>, <<TextEntry(Sample.field, Sample.invalid)>>, <<>>, 0),
      MultipartBody,
      BodySource("Blob", <<>>, <<>>, Sample.imagePng, 3),
      BodySource("ArrayBuffer", <<>>, <<>>, <<>>, 3),
      BodySource("ArrayBufferView", <<>>, <<>>, <<>>, 3),
      BodySource("ReadableStream", <<>>, <<>>, <<>>, 0) }

\* Content types handed to the classification; those declared by the captured
\* messages.
SampleContentTypes ==
    { Undefined, Defined(Lit.applicationJson), Defined(Lit.applicationJsonCharset),
      Defined(Sample.textPlain), Defined(Sample.multipartFormData),
      Defined(Sample.applicationJsonl) }
DeclaredContentTypes == {Lit.applicationJson, Sample.textPlain}

\* init.headers as a plain object with one header, and as a Headers instance.
OneHeader(name, value) == {PlainHeaders(Put(<<>>, name, value)), NewHeaders(Put(<<>>, name, value))}

\* The requests serializeRequest is handed: every body with no content type and
\* with a content type under the lower-case name; a JSON content type and a
\* cookie under names of other letter case; a cookie that does not decode;
\* methods.
CaptureRequests ==
    { Request(Undefined, NoHeaders, body) : body \in SampleBodies }
    \cup { Request(Undefined, PlainHeaders(Put(<<>>, Lit.contentType, ct)), body) :
               ct \in DeclaredContentTypes, body \in SampleBodies }
    \cup { Request(Undefined, headers, StringBody(text)) :
               headers \in OneHeader(Lit.ContentType, Lit.applicationJson)
                              \cup OneHeader(Sample.upperContentType, Lit.applicationJson),
               text \in {Sample.object, Sample.invalid} }
    \cup { Request(Undefined, headers, NoBody) :
               headers \in OneHeader(Lit.cookie, <<Ch.a, Ch.eq, Ch.two>>)
                              \cup OneHeader(Lit.Cookie, <<Ch.a, Ch.eq, Ch.two>>)
                              \cup OneHeader(Sample.upperCookie, <<Ch.a, Ch.eq, Ch.two>>) }
    \cup { Request(Defined(method), NoHeaders, NoBody) : method \in {Str.post, Str.POST, Str.get} }

\* The responses serializeResponse is handed: every text under no content type
\* and under JSON, text, an unlisted JSON-like and an image content type; one
\* whose body was used; one whose Set-Cookie does not decode.
ResponseHeaders(contentType) ==
    IF contentType = Undefined THEN NewHeaders(<<>>)
    ELSE NewHeaders(Put(<<>>, Lit.ContentType, contentType[1]))
CaptureResponses ==
    { Response(200, ResponseHeaders(ct), <<>>, TRUE, text, FALSE) :
          ct \in (SampleContentTypes \ {Defined(Sample.multipartFormData)})
                     \cup {Defined(Sample.imagePng)},
          text \in {Sample.empty, Sample.object, Sample.invalid, Lit.null} }
    \cup { Response(200, ResponseHeaders(Undefined), <<>>, TRUE, Sample.invalid, TRUE),
           Response(200, ResponseHeaders(Undefined), <<<<Ch.a, Ch.eq, Ch.percent>>>>, TRUE,
                    Sample.invalid, FALSE) }

\* The contracts a violation summary is formatted for: POST /api/users with the
\* label "A", and without a label.
SummaryContracts ==
    { Endpoint(Str.POST, PathUsers, "A"),
      Contract(Defined(Str.POST), Defined(PathUsers), Undefined, {}, Undefined) }

\* Strings of the reported errors: keys, values, messages of the evaluator, JSON
\* pointers, and "id: expected integer, received string".
Report ==
    [id |-> <<105, 100>>,
     items |-> <<105, 116, 101, 109, 115>>,
     x |-> <<120>>,
     seven |-> <<55>>,
     integer |-> <<105, 110, 116, 101, 103, 101, 114>>,
     mustBeInteger |-> <<109, 117, 115, 116, 32, 98, 101, 32, 105, 110, 116, 101, 103, 101, 114>>,
     missingProperty |-> <<109, 105, 115, 115, 105, 110, 103, 80, 114, 111, 112, 101, 114, 116, 121>>,
     mustHaveX |-> <<109, 117, 115, 116, 32, 104, 97, 118, 101, 32, 114, 101, 113, 117, 105, 114, 101, 100, 32, 112, 114, 111, 112, 101, 114, 116, 121, 32, 39, 120, 39>>,
     schemaInvalid |-> <<115, 99, 104, 101, 109, 97, 32, 105, 115, 32, 105, 110, 118, 97, 108, 105, 100>>,
     allowed |-> <<97, 108, 108, 111, 119, 101, 100>>,
     statusMessage |-> <<115, 116, 97, 116, 117, 115, 32, 109, 117, 115, 116, 32, 98, 101, 32, 111, 110, 101, 32, 111, 102, 32, 91, 50, 48, 48, 44, 32, 50, 48, 49, 93, 44, 32, 114, 101, 99, 101, 105, 118, 101, 100, 32, 52, 48, 52>>,
     pointerId |-> <<47, 105, 100>>,
     pointerItemId |-> <<47, 105, 116, 101, 109, 115, 47, 48, 47, 105, 100>>,
     pointerFirstId |-> <<47, 48, 47, 105, 100>>,
     idLine |-> <<105, 100, 58, 32, 101, 120, 112, 101, 99, 116, 101, 100, 32, 105, 110, 116, 101, 103, 101, 114, 44, 32, 114, 101, 99, 101, 105, 118, 101, 100, 32, 115, 116, 114, 105, 110, 103>>]

\* Data handed to the evaluator: {"id": "7"}, [{"id": "7"}], {"items": [{"id": "7"}]}
\* and {}.
DataId7 == ObjectValue(<<Member(Report.id, StringValue(Report.seven))>>)
DataList == ArrayValue(<<DataId7>>)
DataItems == ObjectValue(<<Member(Report.items, DataList)>>)

\* Errors of the evaluator: the value at a pointer is not an integer
\* (params {type: "integer"}); the root lacks the property "x".
TypeError(pointer) ==
    ErrorObject(pointer, Report.mustBeInteger,
                Defined(ObjectValue(<<Member(Lit.type, StringValue(Report.integer))>>)),
                Undefined, Undefined)
RequiredError ==
    ErrorObject(<<>>, Report.mustHaveX,
                Defined(ObjectValue(<<Member(Report.missingProperty, StringValue(Report.x))>>)),
                Undefined, Undefined)

\* What the evaluator finds: data and the errors it raises for it, one to three.
SampleEvaluations ==
    { [data |-> DataId7, errors |-> <<TypeError(Report.pointerId)>>],
      [data |-> DataId7, errors |-> <<TypeError(Report.pointerId), RequiredError>>],
      [data |-> DataList, errors |-> <<TypeError(Report.pointerFirstId)>>],
      [data |-> DataItems,
       errors |-> <<TypeError(Report.pointerItemId), RequiredError, TypeError(Report.pointerId)>>],
      [data |-> ObjectValue(<<>>), errors |-> <<RequiredError>>] }

\* Error lists of results built otherwise: none, an empty one, the item of a
\* schema that does not compile, the item of a status that is not allowed, and an
\* item with the schema expected and null received.
SampleErrorLists ==
    { Undefined, Defined(<<>>),
      Defined(<<MessageItem(Report.schemaInvalid)>>),
      Defined(<<StatusItem(Report.statusMessage, NumberValue(Numeral(404)),
                           ObjectValue(<<Member(Report.allowed,
                               ArrayValue(<<NumberValue(Numeral(200)), NumberValue(Numeral(201))>>))>>))>>),
      Defined(<<ReportItem(Defined(Report.pointerId), Report.mustBeInteger, Defined(NullValue),
                           Defined(ObjectValue(<<Member(Lit.type, StringValue(Report.integer))>>)),
                           Undefined),
                MessageItem(Report.schemaInvalid)>>) }

\* No validator under observation.
NoValidation ==
    [contracts |-> <<>>, onViolation |-> "none", handled |-> <<>>,
     matched |-> <<>>, found |-> <<>>, resolved |-> <<>>]

Init ==
    /\ globalFetch = NativeFetch
    /\ currentCleanup = Null
    /\ interceptors = <<>>
    /\ validators = <<>>
    /\ lastOp = <<"none">>
    /\ calls = <<>>
    /\ mq = <<>>
    /\ validation = NoValidation
    /\ builder = NewBuilder
    /\ captures = <<>>

\* ------------------------------------------------------------- lifecycle
\* register(config) did what out says.
Registered(out) ==
    /\ SetWorld(out.world)
    /\ lastOp' = IF out.thrown = "none" THEN <<"register", Len(out.world.icpts)>>
                  ELSE <<"registerThrew">>

\* register(config)
Register(config) ==
    /\ Registered(RegisterOutcome(World, config))
    /\ UNCHANGED <<calls, mq, validation, builder, captures>>

\* unregister()
Unregister ==
    /\ SetWorld(RunCurrentCleanup(World))
    /\ lastOp' = <<"unregister">>
    /\ UNCHANGED <<calls, mq, validation, builder, captures>>

\* handle.unregister() of the handle returned by the r-th register()
HandleUnregister(r) ==
    /\ SetWorld(Cleanup(World, r))
    /\ lastOp' = <<"handle", r>>
    /\ UNCHANGED <<calls, mq, validation, builder, captures>>

\* ------------------------------------------------------------- exchanges
\* A call whose synchronous part did r: its record, and the microtasks it queued.
Called(req, r) ==
    /\ calls' = Append(calls,
           [req |-> req, frames |-> r.frames, thrown |-> r.thrown,
            issued |-> r.issued,
            transport |-> IF r.issued = 1 THEN "pending" ELSE "none",
            response |-> [bodyUsed |-> FALSE, body |-> "none", setCookie |-> <<>>,
                          getSetCookie |-> TRUE],
            caller |-> IF r.thrown = "none" THEN "pending" ELSE "threw",
            callerValue |-> "none", receivedUsed |-> FALSE,
            callerRead |-> "none", uncaught |-> 0])
    /\ mq' = mq \o r.tasks

\* User code calls globalThis.fetch(input, init).
CallFetch(req) ==
    /\ Len(calls) < MaxCalls
    /\ Called(req, InvokeSync(interceptors, globalFetch, req, Len(calls) + 1, 1,
                              Len(interceptors) + 1))
    /\ UNCHANGED <<lifecycleVars, validation, builder, captures>>

\* (a settlement that hands the exchange to the emission of its response event
\* instead of to the caller)
ContinuationAfterCapture(k, f) ==
    IF f > Len(calls[k].frames) THEN <<"reaction", k, f - 1>> ELSE <<"emitResponse", k, f>>

\* The continuation to schedule when exchange f of call k has settled.
Continuation(k, f) == IF f > 1 THEN <<"reaction", k, f - 1>> ELSE <<"caller", k>>

\* The transport settles its promise: with a Response, or with an error.
TransportSettle(k, outcome, resp) ==
    /\ calls[k].transport = "pending"
    /\ calls' = [calls EXCEPT
           ![k].transport = outcome,
           ![k].response = IF outcome = "fulfilled"
                           THEN [bodyUsed |-> FALSE, body |-> resp.body,
                                 setCookie |-> resp.setCookie,
                                 getSetCookie |-> resp.getSetCookie]
                           ELSE @]
    /\ mq' = Append(mq, Continuation(k, Len(calls[k].frames) + 1))
    /\ UNCHANGED <<lifecycleVars, validation, builder, captures>>

\* (response) => { serializeResponse(response, ...).then(...); return response; }
\* for exchange f of call k; started is how far serializeResponse got synchronously.
\* When it threw, the promise it returned rejects and nothing handles it.
ReactionFulfilled(k, f, value, started) ==
    /\ calls' = [calls EXCEPT
           ![k].frames[f].state = "fulfilled",
           ![k].frames[f].value = value,
           ![k].frames[f].clone = started,
           ![k].frames[f].cloneBody = IF started = "reading" THEN calls[k].response.body ELSE @,
           ![k].frames[f].log = Append(@, Settled),
           ![k].response.bodyUsed = @ \/ (started = "reading" /\ CaptureReadTarget = "original"),
           ![k].uncaught = IF started = "reading" THEN @ ELSE @ + 1]
    /\ mq' = Append(Tail(mq), Continuation(k, f))

\* The .then callbacks of _wrapFetch for exchange f of call k, run as a microtask.
RunReaction ==
    /\ mq # <<>> /\ Head(mq)[1] = "reaction"
    /\ LET k == Head(mq)[2]
           f == Head(mq)[3]
           c == calls[k]
           fr == c.frames[f]
           innermost == f = Len(c.frames)
           innerState == IF innermost THEN c.transport ELSE c.frames[f + 1].state
           innerValue == IF innermost
                         THEN (IF c.transport = "fulfilled" THEN "R" ELSE "E")
                         ELSE c.frames[f + 1].value
           em == Emit(interceptors[fr.icpt], "error", k, f)
       IN  IF innerState = "fulfilled"
           THEN ReactionFulfilled(k, f, innerValue,
                    SerializeResponseStart(c.response.bodyUsed,
                                           getResponseCookiesFromHeaders(c.response)))
           ELSE \* (error) => { this._emit(INTERCEPTOR_ERROR, ...); throw error; }
                /\ calls' = [calls EXCEPT
                       ![k].frames[f].state = "rejected",
                       ![k].frames[f].value = IF em.threw THEN "X" ELSE innerValue,
                       ![k].frames[f].log =
                           @ \o <<Settled, EmittedError(fr.snapshot, Len(em.tasks), innerValue)>>]
                /\ mq' = Append(Tail(mq) \o em.tasks, Continuation(k, f))
    /\ UNCHANGED <<lifecycleVars, validation, builder, captures>>

\* The body read awaited by serializeResponse completes.
NormalizeDone(k, f) ==
    /\ calls[k].frames[f].clone = "reading"
    /\ calls' = [calls EXCEPT ![k].frames[f].clone = "done",
                              ![k].frames[f].log = Append(@, Normalized)]
    /\ mq' = Append(mq, <<"emitResponse", k, f>>)
    /\ UNCHANGED <<lifecycleVars, validation, builder, captures>>

\* The validators whose interceptorRef is interceptor i.
AttachedTo(i) == {r \in DOMAIN validators : validators[r].interceptorRef = IcptRef(i)}

\* serializeResponse(...).then((capturedResponse) => { this._emit(INTERCEPTOR_RESPONSE, ...) })
RunEmitResponse ==
    /\ mq # <<>> /\ Head(mq)[1] = "emitResponse"
    /\ LET k == Head(mq)[2]
           f == Head(mq)[3]
           fr == calls[k].frames[f]
           em == Emit(interceptors[fr.icpt], "response", k, f)
       IN  /\ calls' = [calls EXCEPT
                  ![k].frames[f].log =
                      Append(@, EmittedResponse(fr.snapshot, Len(em.tasks), AttachedTo(fr.icpt))),
                  ![k].uncaught = IF em.threw THEN @ + 1 ELSE @]
           /\ mq' = Tail(mq) \o em.tasks
    /\ UNCHANGED <<lifecycleVars, validation, builder, captures>>

\* queueMicrotask(() => cb(payload)) runs, and cb returns or throws.
RunListener(throws) ==
    /\ mq # <<>> /\ Head(mq)[1] = "listener"
    /\ throws => Head(mq)[5][1] = "user"
    /\ LET k == Head(mq)[2]
           f == Head(mq)[3]
           event == Head(mq)[4]
           cb == Head(mq)[5]
       IN  calls' = [calls EXCEPT
               ![k].frames[f].log = Append(@, Ran(event, cb, calls[k].frames[f].snapshot)),
               ![k].uncaught = IF throws THEN @ + 1 ELSE @]
    /\ mq' = Tail(mq)
    /\ UNCHANGED <<lifecycleVars, validation, builder, captures>>

\* The caller's continuation: it sees the promise globalThis.fetch returned settle.
RunCaller ==
    /\ mq # <<>> /\ Head(mq)[1] = "caller"
    /\ LET k == Head(mq)[2]
           c == calls[k]
           direct == c.frames = <<>>
       IN  calls' = [calls EXCEPT
               ![k].caller = IF direct THEN c.transport ELSE c.frames[1].state,
               ![k].callerValue = IF direct
                                  THEN (IF c.transport = "fulfilled" THEN "R" ELSE "E")
                                  ELSE c.frames[1].value,
               ![k].receivedUsed = c.response.bodyUsed]
    /\ mq' = Tail(mq)
    /\ UNCHANGED <<lifecycleVars, validation, builder, captures>>

\* The caller reads the body of the response it received (response.text()).
ReadBody(k) ==
    /\ calls[k].caller = "fulfilled"
    /\ calls[k].callerRead = "none"
    /\ calls' = [calls EXCEPT
           ![k].callerRead = IF calls[k].response.bodyUsed THEN "TypeError"
                             ELSE calls[k].response.body,
           ![k].response.bodyUsed = TRUE]
    /\ UNCHANGED <<lifecycleVars, mq, validation, builder, captures>>

CallIds == 1..Len(calls)
FrameIds(k) == 1..Len(calls[k].frames)

Exchange ==
    \/ \E req \in SampleRequests : CallFetch(req)
    \/ \E k \in CallIds, resp \in SampleResponses : TransportSettle(k, "fulfilled", resp)
    \/ \E k \in CallIds : TransportSettle(k, "rejected", Null)
    \/ RunReaction
    \/ \E k \in CallIds : \E f \in FrameIds(k) : NormalizeDone(k, f)
    \/ RunEmitResponse
    \/ \E throws \in BOOLEAN : RunListener(throws)
    \/ RunCaller
    \/ \E k \in CallIds : ReadBody(k)

\* --------------------------------------------- interceptors used directly
\* const interceptor = createInterceptor(options), with any emit option.
InitDirect ==
    /\ globalFetch = NativeFetch
    /\ currentCleanup = Null
    /\ \E opt \in EmitOptions : interceptors = <<NewInterceptor(opt)>>
    /\ validators = <<>>
    /\ lastOp = <<"none">>
    /\ calls = <<>>
    /\ mq = <<>>
    /\ validation = NoValidation
    /\ builder = NewBuilder
    /\ captures = <<>>

\* interceptor.install()
InstallOp(i) ==
    /\ SetWorld(Install(World, i))
    /\ UNCHANGED <<lastOp, calls, mq, validation, builder, captures>>

\* interceptor.uninstall()
UninstallOp(i) ==
    /\ SetWorld(Uninstall(World, i))
    /\ UNCHANGED <<lastOp, calls, mq, validation, builder, captures>>

\* Number of listeners subscribed to interceptor i.
ListenerCount(i) ==
    Len(interceptors[i].listeners.request) + Len(interceptors[i].listeners.response)
        + Len(interceptors[i].listeners.error)

\* interceptor.on(event, cb)
OnOp(i, event, cb) ==
    /\ ListenerCount(i) < MaxListeners
    /\ SetWorld(On(World, i, event, cb))
    /\ UNCHANGED <<lastOp, calls, mq, validation, builder, captures>>

\* interceptor.off(event, cb)
OffOp(i, event, cb) ==
    /\ SetWorld(Off(World, i, event, cb))
    /\ UNCHANGED <<lastOp, calls, mq, validation, builder, captures>>

UserListeners == {UserListener(1)}

\* MaxInterceptors interceptors created with createInterceptor(), in an
\* environment that has a fetch function or has none (globalThis.fetch undefined).
InitInstall ==
    /\ globalFetch \in {NativeFetch, Undefined}
    /\ currentCleanup = Null
    /\ interceptors = [i \in 1..MaxInterceptors |-> NewInterceptor(<<"none">>)]
    /\ validators = <<>>
    /\ lastOp = <<"none">>
    /\ calls = <<>>
    /\ mq = <<>>
    /\ validation = NoValidation
    /\ builder = NewBuilder
    /\ captures = <<>>

Direct ==
    \/ \E i \in DOMAIN interceptors : InstallOp(i)
    \/ \E i \in DOMAIN interceptors : UninstallOp(i)
    \/ \E i \in DOMAIN interceptors, e \in Events, cb \in UserListeners : OnOp(i, e, cb)
    \/ \E i \in DOMAIN interceptors, e \in Events, cb \in UserListeners : OffOp(i, e, cb)

\* ------------------------------------------------ matcher and validator
\* Number of direct calls of the matcher's functions so far.
Probes == Len(validation.matched) + Len(validation.found) + Len(validation.resolved)

\* matchPathPattern(pathname, pattern) is called.
MatchPath(pathname, pattern) ==
    /\ Probes < MaxProbes
    /\ validation' = [validation EXCEPT !.matched =
           Append(@, [pathname |-> pathname, pattern |-> pattern,
                      result |-> matchPathPattern(pathname, pattern)])]
    /\ UNCHANGED <<lifecycleVars, calls, mq, builder, captures>>

\* findContract(contracts, method, pathname) is called.
FindContract(contracts, method, pathname) ==
    /\ Probes < MaxProbes
    /\ validation' = [validation EXCEPT !.found =
           Append(@, [contracts |-> contracts, method |-> method, pathname |-> pathname,
                      result |-> findContract(contracts, method, pathname)])]
    /\ UNCHANGED <<lifecycleVars, calls, mq, builder, captures>>

\* A request with this method and url is captured (serializeRequest stores
\* parseUrl(url) in it) and the handler looks its contract up:
\* pathnameFromUrl(request.url), then findContract(config.contracts, method, pathname).
ResolveContract(contracts, method, url) ==
    /\ Probes < MaxProbes
    /\ validation' = [validation EXCEPT !.resolved =
           Append(@, [contracts |-> contracts, method |-> method, url |-> url,
                      parsed |-> parseUrl(url),
                      pathname |-> pathnameFromUrl(url),
                      result |-> findContract(contracts, method, pathnameFromUrl(url))])]
    /\ UNCHANGED <<lifecycleVars, calls, mq, builder, captures>>

\* createContractValidator(config, options) for a config register() accepts.
InitValidate ==
    /\ globalFetch = NativeFetch
    /\ currentCleanup = Null
    /\ interceptors = <<>>
    /\ validators = <<>>
    /\ lastOp = <<"none">>
    /\ calls = <<>>
    /\ mq = <<>>
    /\ \E config \in SampleConfigs, onViolation \in ViolationCallbacks :
          /\ RegisterOutcome(World, config).thrown = "none"
          /\ validation = [NoValidation EXCEPT !.contracts = config.contracts.items,
                                               !.onViolation = onViolation]
    /\ builder = NewBuilder
    /\ captures = <<>>

\* The validator's handler runs for a response event.
Handle(payload) ==
    /\ Len(validation.handled) < MaxHandled
    /\ validation' = [validation EXCEPT !.handled =
           Append(@, [payload |-> payload,
                      outcome |-> handler(validation.contracts, validation.onViolation,
                                          payload)])]
    /\ UNCHANGED <<lifecycleVars, calls, mq, builder, captures>>

\* A call fn makes on the builder, as kept in the history.
BuilderCall(op, path, kind, schema, codes, name) ==
    [op |-> op, path |-> path, kind |-> kind, schema |-> schema, codes |-> codes,
     name |-> name]

\* fn makes one more call on the builder, after which the builder is b.
Calls(b, call) ==
    /\ builder.returned = Undefined
    /\ Len(builder.calls) < MaxBuilderCalls
    /\ builder' = [b EXCEPT !.calls = Append(@, call)]
    /\ UNCHANGED <<lifecycleVars, calls, mq, validation, captures>>

\* What fn hands the builder: paths, schemas per aspect (two for the bodies, so
\* that a setter can be repeated with another schema), status codes, labels.
BuilderPaths(name) == IF name = "get" THEN {PathUsers, PatternUserId} ELSE {PathUsers}
BuilderSchemas(kind) ==
    IF kind \in {"request-body", "response-body"} THEN {NeedsX, Uncompilable} ELSE {NeedsX}
BuilderLabels == {"A", "B"}

\* fn calls an endpoint method, a setter, or returns.
BuildEndpoint(name, path) ==
    Calls(StartEndpoint(builder, name, path),
          BuilderCall(name, path, "", NeedsX, <<>>, ""))
BuildSchema(kind, schema) ==
    Calls(SetSchema(builder, kind, schema), BuilderCall("schema", <<>>, kind, schema, <<>>, ""))
BuildStatusCodes(codes) ==
    Calls(SetStatusCodes(builder, codes),
          BuilderCall("statusCodes", <<>>, "", NeedsX, codes, ""))
BuildLabel(name) ==
    Calls(SetLabel(builder, name), BuilderCall("label", <<>>, "", NeedsX, <<>>, name))
BuildPort(portNumber) ==
    Calls(SetPort(builder, portNumber), BuilderCall("port", <<>>, "", NeedsX, <<>>, ""))
BuildReturn ==
    /\ builder.returned = Undefined
    /\ builder' = Finish(builder)
    /\ UNCHANGED <<lifecycleVars, calls, mq, validation, captures>>

\* A direct call of a capture function is recorded.
Captured(entry) ==
    /\ Len(captures) < MaxCaptures
    /\ captures' = Append(captures, entry)
    /\ UNCHANGED <<lifecycleVars, calls, mq, validation, builder>>

\* serializeRequest(url, init) is called.
SerializeRequest(req) ==
    Captured([what |-> "request", request |-> req, result |-> serializeRequest(req)])

\* serializeResponse(response) is called and its promise settles.
SerializeResponse(response) ==
    Captured([what |-> "response", response |-> response,
              result |-> serializeResponse(response)])

\* inferRequestBodyKind(contentType, bodySource, parseBody(bodySource, contentType))
\* is called.
InferRequestBodyKind(contentType, bodySource) ==
    Captured([what |-> "classify", contentType |-> contentType, bodySource |-> bodySource,
              parsedBody |-> parseBody(bodySource, contentType),
              result |-> inferRequestBodyKind(contentType, bodySource,
                                              parseBody(bodySource, contentType))])

\* formatViolationSummary(result) is called for a violation of kind of an
\* exchange whose request was captured from req.
FormatViolationSummary(req, contract, kind) ==
    /\ serializeRequest(req).ok
    /\ Captured([what |-> "summary", request |-> req, contract |-> contract, kind |-> kind,
                 result |-> serializeRequest(req),
                 summary |-> formatViolationSummary(contract, serializeRequest(req).value,
                                                    kind)])

\* logViolation(result) is called for a violation of kind of an exchange whose
\* request was captured from req; data and raised are what the evaluator was
\* handed and raised, when the errors come from it.
Reported(req, contract, kind, data, raised, errors) ==
    /\ serializeRequest(req).ok
    /\ Captured([what |-> "report", request |-> req, contract |-> contract, kind |-> kind,
                 data |-> data, raised |-> raised, errors |-> errors,
                 summary |-> formatViolationSummary(contract, serializeRequest(req).value, kind),
                 message |-> formatViolationMessage(contract, serializeRequest(req).value,
                                                    kind, errors),
                 logged |-> logViolation(contract, serializeRequest(req).value, kind, errors)])

\* A result whose errors validateWithSchema built from the evaluator's is logged.
LogEvaluation(req, contract, kind, evaluation) ==
    Reported(req, contract, kind, Defined(evaluation.data), evaluation.errors,
             Defined(MapErrors(evaluation.data, evaluation.errors)))

\* A result with the given errors is logged.
LogViolation(req, contract, kind, errors) ==
    Reported(req, contract, kind, Undefined, <<>>, errors)

\* register(config), bounded.
RegisterUpTo(n, config) == Len(interceptors) < n /\ Register(config)

Teardown ==
    \/ Unregister
    \/ \E r \in 1..Len(interceptors) : HandleUnregister(r)

\* The lifecycle controller alone.
Next == (\E config \in SampleConfigs : RegisterUpTo(MaxRegs, config)) \/ Teardown

Spec == Init /\ [][Next]_vars

\* The registered pipeline with exchanges in flight.
NextExchange ==
    \/ \E config \in PlainConfigs : RegisterUpTo(MaxPipelines, config)
    \/ Teardown
    \/ Exchange

SpecExchange == Init /\ [][NextExchange]_vars

\* Registrations replaced and torn down in any order, with exchanges in flight.
NextReplace ==
    \/ \E config \in PlainConfigs : RegisterUpTo(MaxRegs, config)
    \/ Teardown
    \/ Exchange

SpecReplace == Init /\ [][NextReplace]_vars

\* Interceptors created and driven by user code, with exchanges in flight.
NextDirect == Direct \/ Exchange

SpecDirect == InitDirect /\ [][NextDirect]_vars

\* Several interceptors installed and uninstalled in any order, with exchanges
\* in flight.
NextInstall ==
    \/ \E i \in DOMAIN interceptors : InstallOp(i)
    \/ \E i \in DOMAIN interceptors : UninstallOp(i)
    \/ CallFetch(Request(Undefined, NoHeaders, NoBody))
    \/ \E k \in CallIds, resp \in SampleResponses : TransportSettle(k, "fulfilled", resp)
    \/ \E k \in CallIds : TransportSettle(k, "rejected", Null)
    \/ RunReaction
    \/ \E k \in CallIds : \E f \in FrameIds(k) : NormalizeDone(k, f)
    \/ RunEmitResponse
    \/ RunCaller

SpecInstall == InitInstall /\ [][NextInstall]_vars

\* The matcher's functions called directly.
NextMatch ==
    \/ \E pathname \in SamplePaths, pattern \in SamplePatterns : MatchPath(pathname, pattern)
    \/ \E contracts \in SampleMatchLists, method \in SampleMethods, pathname \in SamplePaths :
          FindContract(contracts, method, pathname)
    \/ \E url \in SampleUrls :
          ResolveContract(<<Endpoint(Str.POST, PathUsers, "A"), Endpoint(Str.GET, PathUsers, "B")>>,
                          Str.get, url)

SpecMatch == Init /\ [][NextMatch]_vars

\* A validator handed response events.
NextValidate == \E payload \in SamplePayloads : Handle(payload)

SpecValidate == InitValidate /\ [][NextValidate]_vars

\* defineContractConfig(fn) for every fn of up to MaxBuilderCalls calls.
NextBuilder ==
    \/ \E name \in EndpointMethods : \E path \in BuilderPaths(name) : BuildEndpoint(name, path)
    \/ \E kind \in SchemaKinds : \E schema \in BuilderSchemas(kind) : BuildSchema(kind, schema)
    \/ BuildStatusCodes(AllowedStatus)
    \/ \E name \in BuilderLabels : BuildLabel(name)
    \/ BuildPort(3000)
    \/ BuildReturn

SpecBuilder == Init /\ [][NextBuilder]_vars

\* The capture functions and the violation summary called directly.
NextCapture ==
    \/ \E req \in CaptureRequests : SerializeRequest(req)
    \/ \E response \in CaptureResponses : SerializeResponse(response)
    \/ \E contentType \in SampleContentTypes, bodySource \in SampleBodies :
          InferRequestBodyKind(contentType, bodySource)
    \/ \E req \in CaptureRequests, contract \in SummaryContracts, kind \in Range(AspectOrder) :
          /\ req.headers = NoHeaders
          /\ req.body = NoBody
          /\ FormatViolationSummary(req, contract, kind)
    \/ \E contract \in SummaryContracts, evaluation \in SampleEvaluations :
          LogEvaluation(Request(Defined(Str.POST), NoHeaders, NoBody), contract,
                        "response-body", evaluation)
    \/ \E contract \in SummaryContracts, errors \in SampleErrorLists :
          LogViolation(Request(Defined(Str.POST), NoHeaders, NoBody), contract,
                       "response-status", errors)

SpecCapture == Init /\ [][NextCapture]_vars

\* ------------------------------------------------------------ properties
Exchanges == UNION {{<<k, f>> : f \in FrameIds(k)} : k \in CallIds}
LogOf(x) == calls[x[1]].frames[x[2]].log
EmitsAt(lg, n, events) == lg[n].what = "emit" /\ lg[n].event \in events
RunsAt(lg, n, event) == lg[n].what = "run" /\ lg[n].event = event

\* How often a validator's handler has run for exchange x.
HandlerRuns(x) ==
    Cardinality({n \in DOMAIN LogOf(x) :
        RunsAt(LogOf(x), n, "response") /\ LogOf(x)[n].cb[1] = "handler"})

\* A listener microtask of exchange x for the event is still queued.
PendingListener(x, event) ==
    \E n \in DOMAIN mq :
        mq[n][1] = "listener" /\ mq[n][2] = x[1] /\ mq[n][3] = x[2] /\ mq[n][4] = event

\* Exchange x has emitted its response event and every listener it queued has run.
Observed(x) ==
    /\ \E n \in DOMAIN LogOf(x) : EmitsAt(LogOf(x), n, {"response"})
    /\ ~PendingListener(x, "response")

\* The validator of the exchange's interceptor was attached when the response
\* event was emitted.
AttachedAtEmission(x) ==
    \E n \in DOMAIN LogOf(x) :
        /\ EmitsAt(LogOf(x), n, {"response"})
        /\ calls[x[1]].frames[x[2]].icpt \in LogOf(x)[n].attached

\* A request that capture processes without an exception.
PlainRequest == Request(Undefined, NoHeaders, NoBody)

\* C1: after any sequence of register / unregister / handle.unregister calls
\* globalThis.fetch is the transport function or one wrapper whose saved original
\* is the transport function, and at most one interceptor is installed.
C1_AtMostOneLayer ==
    /\ \/ globalFetch = NativeFetch
       \/ /\ IsWrapper(globalFetch)
          /\ interceptors[globalFetch[2]].originalFetch = NativeFetch
    /\ Cardinality({i \in DOMAIN interceptors : interceptors[i].installed}) <= 1

\* C2: globalThis.fetch never points at a wrapper (directly or through saved
\* originals) whose saved original is null: a call made through globalThis.fetch
\* always reaches the transport.
C2_FetchReachesTransport ==
    InvokeSync(interceptors, globalFetch, PlainRequest, 1, 1, Len(interceptors) + 1).issued = 1

\* C3: when unregister(), or unregister() of the handle of the most recent
\* register(), has returned, globalThis.fetch is the transport function and no
\* validator is subscribed to any interceptor.
C3_TeardownLeavesNothing ==
    (lastOp = <<"unregister">> \/ lastOp = <<"handle", Len(interceptors)>>)
        => /\ globalFetch = NativeFetch
           /\ \A i \in DOMAIN interceptors : interceptors[i].listeners.response = <<>>

\* C4 (as stated): every exchange whose response event has been delivered was
\* validated exactly once, whatever register / unregister calls ran meanwhile.
C4_ValidatedExactlyOnce ==
    \A x \in Exchanges : Observed(x) => HandlerRuns(x) = 1

\* C4 (amended): the validator's handler runs at most once per exchange, and once
\* the response event has been delivered it has run exactly once if the validator
\* was attached when the event was emitted and not at all otherwise.
C4_ValidatedOnceWhileAttached ==
    \A x \in Exchanges :
        /\ HandlerRuns(x) <= 1
        /\ Observed(x) => (HandlerRuns(x) = 1 <=> AttachedAtEmission(x))

C4_Witness ==
    \E x \in Exchanges : Observed(x) /\ AttachedAtEmission(x) /\ HandlerRuns(x) = 1

\* C5: every call through an installed wrapper invokes the transport exactly once
\* and a resolved call hands the caller the transport's own response object.
C5_CallForwardedUnchanged ==
    \A k \in CallIds :
        calls[k].frames # <<>> =>
            /\ calls[k].issued = 1
            /\ calls[k].caller = "fulfilled" => calls[k].callerValue = "R"

\* C6: when the transport rejects with E, the exchange emits an error event
\* carrying the request snapshot and E, emits no response event, and the promise of
\* the wrapper rejects with E itself, whatever emit option or listeners are set.
C6_TransportErrorReraised ==
    \A k \in CallIds :
        (calls[k].transport = "rejected" /\ calls[k].caller # "pending") =>
            /\ calls[k].caller = "rejected" /\ calls[k].callerValue = "E"
            /\ \A f \in FrameIds(k) :
                /\ \E n \in DOMAIN LogOf(<<k, f>>) :
                      /\ EmitsAt(LogOf(<<k, f>>), n, {"error"})
                      /\ LogOf(<<k, f>>)[n].error = "E"
                      /\ LogOf(<<k, f>>)[n].request = calls[k].frames[f].snapshot
                /\ \A n \in DOMAIN LogOf(<<k, f>>) : ~EmitsAt(LogOf(<<k, f>>), n, {"response"})

\* C7: capturing the request never aborts the call: every wrapper invocation has
\* a captured request and serializeRequest throws nothing to the caller.
C7_CaptureNeverAborts ==
    \A k \in CallIds :
        /\ calls[k].thrown # "URIError"
        /\ \A f \in FrameIds(k) : calls[k].frames[f].snapshot # Undefined

\* C8: an exception thrown by an event consumer (a listener or the emit option)
\* never fails the call: the wrapper throws nothing to its caller and its promise
\* settles with the transport's response or error.
C8_ConsumerFailureIsolated ==
    \A k \in CallIds :
        /\ calls[k].thrown # "EmitError"
        /\ calls[k].caller \in {"fulfilled", "rejected"} => calls[k].callerValue \in {"R", "E"}

\* C9: the caller receives the response with its body unconsumed, reading it
\* yields the body the transport sent, only the caller ever consumes it, and the
\* capture path got its copy of the body from the clone.
C9_ResponseNotConsumed ==
    \A k \in CallIds :
        /\ ~calls[k].receivedUsed
        /\ calls[k].callerRead \in {"none", calls[k].response.body}
        /\ calls[k].response.bodyUsed => calls[k].callerRead # "none"
        /\ \A f \in FrameIds(k) :
              calls[k].frames[f].clone \in {"reading", "done"}
                  => calls[k].frames[f].cloneBody = calls[k].response.body

C9_Witness ==
    \E k \in CallIds :
        /\ calls[k].callerRead = calls[k].response.body
        /\ calls[k].callerRead # "none"
        /\ \E f \in FrameIds(k) : calls[k].frames[f].clone = "done"

\* C10: in every exchange a response or error event comes after the request
\* event and after every listener the request event queued has run, after the
\* underlying call settled and, for a response event, after the body read of the
\* clone completed; it carries the request snapshot of the request event.
C10_EventOrder ==
    \A x \in Exchanges : \A n \in DOMAIN LogOf(x) :
        EmitsAt(LogOf(x), n, {"response", "error"}) =>
            /\ \E m \in 1..(n - 1) :
                  /\ EmitsAt(LogOf(x), m, {"request"})
                  /\ LogOf(x)[m].request = LogOf(x)[n].request
                  /\ LogOf(x)[m].queued =
                        Cardinality({j \in (m + 1)..(n - 1) : RunsAt(LogOf(x), j, "request")})
            /\ \E m \in 1..(n - 1) : LogOf(x)[m].what = "settled"
            /\ calls[x[1]].transport =
                  (IF LogOf(x)[n].event = "response" THEN "fulfilled" ELSE "rejected")
            /\ LogOf(x)[n].event = "response"
                  => \E m \in 1..(n - 1) : LogOf(x)[m].what = "normalized"

C10_Witness ==
    \E x \in Exchanges : \E n \in DOMAIN LogOf(x) : \E m \in 1..(n - 1) :
        /\ EmitsAt(LogOf(x), n, {"response"})
        /\ RunsAt(LogOf(x), m, "request")

\* The response and error events exchange x has emitted.
TerminalEvents(x) ==
    {n \in DOMAIN LogOf(x) : EmitsAt(LogOf(x), n, {"response", "error"})}

\* Nothing of call k is left to run: the transport settled, the caller was
\* resumed, no microtask of the call is queued and no body read is in progress.
Quiescent(k) ==
    /\ calls[k].transport \in {"fulfilled", "rejected"}
    /\ calls[k].caller \in {"fulfilled", "rejected"}
    /\ \A n \in DOMAIN mq : mq[n][2] # k
    /\ \A f \in FrameIds(k) : calls[k].frames[f].clone # "reading"

\* C11: an exchange never emits more than one response or error event, and once
\* the call it issued has settled and nothing of it is left to run it has
\* emitted exactly one, whatever the response's headers, cookies or body are
\* and whether or not the caller reads the body.
C11_InstrumentationCompletes ==
    \A x \in Exchanges :
        /\ Cardinality(TerminalEvents(x)) <= 1
        /\ (calls[x[1]].issued = 1 /\ Quiescent(x[1])) => Cardinality(TerminalEvents(x)) = 1

\* C12: a single interceptor driven by any sequence of install() / uninstall()
\* calls is in one of two states: installed, with globalThis.fetch its wrapper
\* and the transport function saved as the original (wrapped exactly once, the
\* wrapper never saved as its own original), or uninstalled, with
\* globalThis.fetch the transport function and nothing saved.
C12_InstallIdempotent ==
    Len(interceptors) = 1 =>
        IF interceptors[1].installed
        THEN globalFetch = Wrapper(1) /\ interceptors[1].originalFetch = NativeFetch
        ELSE globalFetch = NativeFetch /\ interceptors[1].originalFetch = Null

\* The interceptor was installed, a call went through its wrapper, and it has
\* been uninstalled since.
C12_Witness ==
    /\ Len(interceptors) = 1 /\ validators = <<>>
    /\ ~interceptors[1].installed /\ globalFetch = NativeFetch
    /\ \E k \in CallIds : calls[k].frames # <<>>

\* C13: when nothing is registered (register() was never called, or unregister()
\* was the last lifecycle call to return), calling unregister() changes nothing
\* and globalThis.fetch is the transport function afterwards.
C13_UnregisterWhenIdle ==
    (interceptors = <<>> \/ lastOp = <<"unregister">>) =>
        /\ RunCurrentCleanup(World) = World
        /\ RunCurrentCleanup(World).fetch = NativeFetch

\* The config is one register() must reject: not an object with a contracts
\* array, or with an empty one.
Unacceptable(config) ==
    \/ config.isNull
    \/ config.typeof # "object"
    \/ ~config.contracts.isArray
    \/ config.contracts.items = <<>>

\* C14: register(config) with a config that is not an object with a contracts
\* array, or whose contracts array is empty, throws TypeError and leaves
\* globalThis.fetch, the registration slot and every interceptor and validator
\* as they were, in every state the lifecycle can be in.
C14_InvalidConfigRejected ==
    \A config \in SampleConfigs :
        Unacceptable(config) => RegisterOutcome(World, config) = RegisterResult("TypeError", World)

\* register() has just thrown while a pipeline was active, which still is.
C14_Witness ==
    /\ lastOp = <<"registerThrew">>
    /\ currentCleanup # Null
    /\ IsWrapper(globalFetch)
    /\ interceptors[globalFetch[2]].listeners.response # <<>>

\* C15: a validator never holds a contract list with an entry that lacks its
\* method or its path (register() rejected it), so matching an exchange against
\* the contracts never fails with a TypeError.
C15_MalformedEntryRejected ==
    /\ WellFormed(validation.contracts)
    /\ \A n \in DOMAIN validation.handled : validation.handled[n].outcome.thrown # "TypeError"

\* Letter case removed from a string (ASCII).
Fold(str) == [n \in DOMAIN str |-> IF str[n] \in 65..90 THEN str[n] + 32 ELSE str[n]]

\* The segments of a path: its pieces between slashes, without the empty ones.
Segments(path) == FilterBoolean(Split(path, Ch.slash))

\* Segment lists agree: same count, and at every index the pattern's segment is
\* a named parameter or equals the path's segment.
SegmentsAgree(ps, qs) ==
    /\ Len(ps) = Len(qs)
    /\ \A i \in DOMAIN qs : qs[i][1] = Ch.colon \/ qs[i] = ps[i]

PathMatches(pathname, pattern) == SegmentsAgree(Segments(pathname), Segments(pattern))

\* The contract's method equals the method ignoring case and its pattern
\* matches the path.
ContractMatches(contract, method, pathname) ==
    /\ Fold(contract.method[1]) = Fold(method)
    /\ PathMatches(pathname, contract.path[1])

\* The positions of the contracts of a list that match.
Hits(contracts, method, pathname) ==
    {n \in DOMAIN contracts : ContractMatches(contracts[n], method, pathname)}

\* The least member of a non-empty set of positions, 0 for the empty set.
First(hits) == IF hits = {} THEN 0 ELSE CHOOSE n \in hits : \A m \in hits : n <= m

\* C16: findContract returns the first contract, in list order, whose method and
\* path pattern match, and null when none matches; when two contracts match it
\* returns the earlier one.
C16_FirstMatchWins ==
    \A n \in DOMAIN validation.found :
        validation.found[n].result =
            Returned(First(Hits(validation.found[n].contracts, validation.found[n].method,
                                validation.found[n].pathname)))

\* Two contracts of the list matched, and the first was returned.
C16_Witness ==
    \E n \in DOMAIN validation.found :
        /\ Cardinality(Hits(validation.found[n].contracts, validation.found[n].method,
                            validation.found[n].pathname)) = 2
        /\ validation.found[n].result = Returned(1)

\* C17: matchPathPattern(path, pattern) is true iff the segments of path and
\* pattern agree; "/api/users/:id" matches "/api/users/42", with or without
\* leading and trailing slashes, and neither "/api/users/42/posts" nor
\* "/api/users".
C17_PathMatchesIffSegmentsAgree ==
    \A n \in DOMAIN validation.matched :
        /\ validation.matched[n].result =
              PathMatches(validation.matched[n].pathname, validation.matched[n].pattern)
        /\ Segments(validation.matched[n].pattern) = Segments(PatternUserId) =>
              validation.matched[n].result =
                  (Segments(validation.matched[n].pathname) = Segments(PathUser42))

\* "api/users/42/" was matched against "/api/users/:id".
C17_Witness ==
    \E n \in DOMAIN validation.matched :
        /\ validation.matched[n].pathname = Tail(PathUser42) \o <<Ch.slash>>
        /\ validation.matched[n].pattern = PatternUserId
        /\ validation.matched[n].result

\* Some literal segment of the pattern differs from the path's segment at the
\* same index, if only in letter case.
LiteralDiffers(ps, qs) ==
    \E i \in DOMAIN qs : i \in DOMAIN ps /\ qs[i][1] # Ch.colon /\ qs[i] # ps[i]

\* C18: a contract whose method equals the captured method up to letter case and
\* whose pattern matches is found, and a path with a literal segment that differs
\* from the pattern's, even only in letter case, matches neither in
\* matchPathPattern nor in findContract.
C18_MethodCaseInsensitivePathCaseSensitive ==
    /\ \A n \in DOMAIN validation.found :
          /\ (\E c \in DOMAIN validation.found[n].contracts :
                  ContractMatches(validation.found[n].contracts[c],
                                  validation.found[n].method, validation.found[n].pathname))
                => validation.found[n].result.value # 0
          /\ validation.found[n].result.value # 0 =>
                ~LiteralDiffers(
                    Segments(validation.found[n].pathname),
                    Segments(validation.found[n].contracts[validation.found[n].result.value].path[1]))
    /\ \A n \in DOMAIN validation.matched :
          LiteralDiffers(Segments(validation.matched[n].pathname),
                         Segments(validation.matched[n].pattern))
              => ~validation.matched[n].result

\* A captured "get" found a contract declared with "GET".
C18_Witness ==
    \E n \in DOMAIN validation.found :
        /\ validation.found[n].method = Str.get
        /\ validation.found[n].result = Returned(1)
        /\ validation.found[n].contracts[1].method = Defined(Str.GET)

\* The captured request of a handled response event.
RequestOf(h) == h.payload.request[1]

\* The position of the contract a handled exchange is matched to (0: none).
MatchedContract(h) ==
    First(Hits(validation.contracts, RequestOf(h).method, pathnameFromUrl(RequestOf(h).url)))

\* The exchange's value for an aspect conforms to what the contract declares.
Conforms(contract, kind, h) ==
    IF kind = "response-status"
    THEN h.payload.response.status \in Range(contract.statusCodes[1])
    ELSE /\ contract.schemas[kind][1].compiles
         /\ AspectData(kind, RequestOf(h), h.payload.response).type = contract.schemas[kind][1].type
         /\ Range(contract.schemas[kind][1].required)
                \subseteq AspectData(kind, RequestOf(h), h.payload.response).keys

\* The aspects the contract declares that the exchange fails, in aspect order.
FailingAspects(contract, h) ==
    SelectSeq(AspectOrder, LAMBDA kind : Declared(contract, kind) /\ ~Conforms(contract, kind, h))

\* The results are one per failing aspect, in order, each with valid = false,
\* the matched contract c and both snapshots of the exchange.
OnePerFailingAspect(results, c, h) ==
    /\ [n \in DOMAIN results |-> results[n].kind] = FailingAspects(validation.contracts[c], h)
    /\ \A n \in DOMAIN results :
          /\ ~results[n].valid
          /\ results[n].contract = c
          /\ results[n].request = RequestOf(h)
          /\ results[n].response = h.payload.response

\* C19: for an exchange matched to a contract the violation results are exactly
\* one per declared aspect whose check fails, none merged, each with
\* valid = false, the aspect kind, the matched contract and both snapshots.
C19_OneResultPerFailingAspect ==
    WellFormed(validation.contracts) =>
        \A n \in DOMAIN validation.handled :
            MatchedContract(validation.handled[n]) # 0 =>
                OnePerFailingAspect(validation.handled[n].outcome.results,
                                    MatchedContract(validation.handled[n]),
                                    validation.handled[n])

\* Every result of the sequence is of an aspect contract c declares.
OnlyDeclared(results, contract) ==
    \A n \in DOMAIN results :
        IF results[n].kind = "response-status"
        THEN contract.statusCodes # Undefined /\ contract.statusCodes[1] # <<>>
        ELSE contract.schemas[results[n].kind] # Undefined

\* Everything a run of the handler produced, delivered and logged.
Produced(outcome) == outcome.results \o outcome.callbacks \o outcome.logged

\* C20: no violation is produced, delivered or logged for an aspect the matched
\* contract declares no schema for, and none at all for an exchange that
\* matches no contract.
C20_UndeclaredAspectsSkipped ==
    WellFormed(validation.contracts) =>
        \A n \in DOMAIN validation.handled :
            IF MatchedContract(validation.handled[n]) = 0
            THEN Produced(validation.handled[n].outcome) = <<>>
            ELSE OnlyDeclared(Produced(validation.handled[n].outcome),
                     validation.contracts[MatchedContract(validation.handled[n])])

\* An exchange failing every aspect was validated against a contract declaring
\* one aspect only, and one violation was produced.
C20_Witness ==
    \E n \in DOMAIN validation.handled :
        /\ validation.handled[n].payload = Payload(PathUser42, Range(AspectOrder))
        /\ Len(validation.handled[n].outcome.results) = 1
        /\ Len(validation.contracts) = 1
        /\ Cardinality({kind \in Range(AspectOrder) :
                           Declared(validation.contracts[1], kind)}) = 1

\* The results of the sequence that are of the given aspect.
OfKind(results, kind) == SelectSeq(results, LAMBDA r : r.kind = kind)

\* The kinds of the results of a sequence, in order.
Kinds(results) == [n \in DOMAIN results |-> results[n].kind]

\* The response status of the exchange is outside a present, non-empty list.
StatusRejected(contract, h) ==
    /\ contract.statusCodes # Undefined
    /\ contract.statusCodes[1] # <<>>
    /\ h.payload.response.status \notin Range(contract.statusCodes[1])

\* The contract allows [200, 201] and declares no body schema, and the response
\* status is 404.
StatusScenario(contract, h) ==
    /\ contract.statusCodes = Defined(<<200, 201>>)
    /\ contract.schemas["response-body"] = Undefined
    /\ h.payload.response.status = 404

\* What C21 says of one handled exchange matched to the contract.
StatusCheckedAsListed(contract, h) ==
    /\ OfKind(h.outcome.results, "response-status") # <<>> <=> StatusRejected(contract, h)
    /\ StatusScenario(contract, h) =>
          /\ Len(OfKind(h.outcome.results, "response-status")) = 1
          /\ OfKind(h.outcome.results, "response-body") = <<>>
          /\ Kinds(h.outcome.results) = FailingAspects(contract, h)

\* C21: a response-status violation is produced iff the matched contract's list
\* of allowed status codes is present, non-empty and lacks the response status;
\* with [200, 201] allowed, status 404 and no body schema, exactly one
\* response-status violation is produced and no body violation.
C21_StatusViolationIffNotAllowed ==
    WellFormed(validation.contracts) =>
        \A n \in DOMAIN validation.handled :
            MatchedContract(validation.handled[n]) # 0 =>
                StatusCheckedAsListed(
                    validation.contracts[MatchedContract(validation.handled[n])],
                    validation.handled[n])

\* C22: every violation produced is handed to onViolation (when registered) and
\* then to the log sink; it is logged even when the callback throws.
C22_LoggedAfterCallback ==
    \A n \in DOMAIN validation.handled :
        /\ validation.handled[n].outcome.logged = validation.handled[n].outcome.results
        /\ validation.onViolation # "none" =>
              validation.handled[n].outcome.callbacks = validation.handled[n].outcome.results

\* C23: onViolation is invoked exactly once per violation result, and its
\* failure leaves the pipeline working: the callback is called for every
\* declared aspect the exchange fails, of this exchange and of later ones.
C23_CallbackFailureIsolated ==
    (WellFormed(validation.contracts) /\ validation.onViolation # "none") =>
        \A n \in DOMAIN validation.handled :
            MatchedContract(validation.handled[n]) # 0 =>
                Kinds(validation.handled[n].outcome.callbacks) =
                    FailingAspects(
                        validation.contracts[MatchedContract(validation.handled[n])],
                        validation.handled[n])

\* The aspects the contract declares with a schema the evaluator cannot compile.
BrokenAspects(contract) ==
    {kind \in SchemaKinds :
        contract.schemas[kind] # Undefined /\ ~contract.schemas[kind][1].compiles}

\* What C24 says of one handled exchange matched to the contract.
EvaluatorFailureContained(contract, h) ==
    BrokenAspects(contract) # {} =>
        /\ \A kind \in BrokenAspects(contract) :
              /\ Len(OfKind(h.outcome.results, kind)) = 1
              /\ Len(OfKind(h.outcome.results, kind)[1].errors) = 1
        /\ h.outcome.thrown = "none"
        /\ Kinds(h.outcome.results) = FailingAspects(contract, h)

\* C24: an aspect whose schema makes the evaluator throw yields exactly one
\* violation with a single generic error item, no exception leaves the handler,
\* and the other declared aspects of the exchange are still checked.
C24_EvaluatorFailureContained ==
    WellFormed(validation.contracts) =>
        \A n \in DOMAIN validation.handled :
            MatchedContract(validation.handled[n]) # 0 =>
                EvaluatorFailureContained(
                    validation.contracts[MatchedContract(validation.handled[n])],
                    validation.handled[n])

\* The positions of the endpoint calls in a history of builder calls.
Starts(history) ==
    SelectSeq([n \in DOMAIN history |-> n], LAMBDA n : history[n].op \in EndpointMethods)

\* The calls after the i-th endpoint call and before the next one.
ChainOf(history, starts, i) ==
    SubSeq(history, starts[i] + 1,
           IF i < Len(starts) THEN starts[i + 1] - 1 ELSE Len(history))

\* The last call of a chain that is a setter op (for the aspect kind).
LastSetter(chain, op, kind) ==
    SelectSeq(chain, LAMBDA c : c.op = op /\ c.kind = kind)

\* The upper-case spelling of the method an endpoint call declares.
UpperCaseMethod(name) ==
    CASE name = "get" -> <<71, 69, 84>>
      [] name = "post" -> <<80, 79, 83, 84>>
      [] name = "put" -> <<80, 85, 84>>
      [] name = "patch" -> <<80, 65, 84, 67, 72>>
      [] name = "delete" -> <<68, 69, 76, 69, 84, 69>>

\* The contract an endpoint call and its chain of setters describe.
ChainContract(endpoint, chain) ==
    [method |-> Defined(UpperCaseMethod(endpoint.op)),
     path |-> Defined(endpoint.path),
     label |-> IF LastSetter(chain, "label", "") = <<>> THEN Undefined
               ELSE Defined(LastSetter(chain, "label", "")[Len(LastSetter(chain, "label", ""))].name),
     schemas |-> [k \in SchemaKinds |->
                    IF LastSetter(chain, "schema", k) = <<>> THEN Undefined
                    ELSE Defined(LastSetter(chain, "schema", k)[Len(LastSetter(chain, "schema", k))].schema)],
     statusCodes |-> IF LastSetter(chain, "statusCodes", "") = <<>> THEN Undefined
                     ELSE Defined(LastSetter(chain, "statusCodes", "")
                                     [Len(LastSetter(chain, "statusCodes", ""))].codes)]

\* One contract per endpoint call, in call order.
ContractsOfCalls(history, starts) ==
    [i \in DOMAIN starts |->
        ChainContract(history[starts[i]], ChainOf(history, starts, i))]

\* C25: the config defineContractConfig returns holds exactly one contract per
\* get/post/put/patch/delete call, in call order, with the upper-case method
\* and the given path; each setter affects only the contract of the most recent
\* endpoint call (the last setter of an aspect wins, nothing leaks into the next
\* contract), and setters before the first endpoint call produce no contract.
C25_OneContractPerEndpointCall ==
    builder.returned # Undefined =>
        builder.returned[1].contracts = ContractsOfCalls(builder.calls, Starts(builder.calls))

\* fn declared an endpoint, set a schema and declared another endpoint, and
\* defineContractConfig returned two contracts, the first with the schema and
\* the second without it.
C25_Witness ==
    /\ builder.returned # Undefined
    /\ Len(builder.calls) = 3
    /\ builder.calls[1].op \in EndpointMethods
    /\ builder.calls[2].op = "schema"
    /\ builder.calls[3].op \in EndpointMethods
    /\ Len(builder.returned[1].contracts) = 2
    /\ builder.returned[1].contracts[1].schemas[builder.calls[2].kind] # Undefined
    /\ builder.returned[1].contracts[2].schemas[builder.calls[2].kind] = Undefined

\* The names of a headers source that spell the given lower-case name.
NamesFor(headers, name) ==
    IF headers.kind = "undefined" THEN {}
    ELSE {k \in DOMAIN headers.entries : Fold(k) = name}

\* The JSON content type is declared, under whatever letter case of the name.
DeclaresJson(headers) ==
    \E k \in NamesFor(headers, Lit.contentType) :
        StartsWith(Fold(Trim(headers.entries[k])), Lit.applicationJson)

\* C26: when the content type is JSON and the body text is not valid JSON, the
\* captured body is the raw text of the body, for a request with a string body
\* and for a response alike.
C26_InvalidJsonKeptAsText ==
    \A n \in DOMAIN captures :
        /\ (/\ captures[n].what = "request"
            /\ captures[n].request.body.kind = "string"
            /\ DeclaresJson(captures[n].request.headers)
            /\ ~JSONparse(captures[n].request.body.text).ok)
           => /\ captures[n].result.ok
              /\ captures[n].result.value.body = StringValue(captures[n].request.body.text)
        /\ (/\ captures[n].what = "response"
            /\ ~captures[n].response.bodyUsed
            /\ DeclaresJson(captures[n].response.headers)
            /\ ~JSONparse(captures[n].response.text).ok)
           => /\ captures[n].result.ok
              /\ captures[n].result.value.body = StringValue(captures[n].response.text)

\* C27: a request without a body or with a zero-length string body, and a
\* response whose body reads as zero-length text, have bodyKind "empty",
\* whatever content type is declared.
C27_EmptyBodyIsEmpty ==
    \A n \in DOMAIN captures :
        /\ (/\ captures[n].what = "request"
            /\ captures[n].result.ok
            /\ \/ captures[n].request.body.kind = "null"
               \/ /\ captures[n].request.body.kind = "string"
                  /\ captures[n].request.body.text = <<>>)
           => captures[n].result.value.bodyKind = "empty"
        /\ (/\ captures[n].what = "response"
            /\ captures[n].result.ok
            /\ captures[n].response.text = <<>>)
           => captures[n].result.value.bodyKind = "empty"

\* The kind a body source has by what it is, whatever content type is declared.
StructuralKind(kind) ==
    CASE kind = "ReadableStream" -> "stream"
      [] kind = "FormData" -> "multipart"
      [] kind = "URLSearchParams" -> "form"
      [] kind \in {"Blob", "ArrayBuffer", "ArrayBufferView"} -> "binary"
      [] OTHER -> "none"

\* The kind a parsed body has by its shape.
KindByShape(parsedBody) ==
    CASE parsedBody.type = "null" -> "empty"
      [] parsedBody.type = "string" -> "text"
      [] parsedBody.type = "object"
           /\ \E m \in Range(parsedBody.members) :
                 /\ m.key \in {Lit.Blob, Lit.ArrayBuffer, Lit.ArrayBufferView}
                 /\ ~Falsy(m.value) -> "binary"
      [] OTHER -> "unknown"

\* The classification of a body source that is not null: by what it is, else
\* by the media type of the content type, else by the shape of the parsed body.
ClassifiedInOrder(contentType, bodySource, parsedBody, kind) ==
    IF StructuralKind(bodySource.kind) # "none" THEN kind = StructuralKind(bodySource.kind)
    ELSE IF inferBodyKindFromContentType(contentType) # "unknown"
    THEN kind = inferBodyKindFromContentType(contentType)
    ELSE kind = KindByShape(parsedBody)

\* The captured form of the multi-part sample body: the text field as its text,
\* the file as a list holding one descriptor of name, type and size.
MultipartCaptured(body) ==
    /\ body.type = "object"
    /\ Len(body.members) = 2
    /\ body.members[1] = Member(Sample.field, StringValue(Sample.invalid))
    /\ body.members[2].key = Sample.file
    /\ body.members[2].value.type = "array"
    /\ Len(body.members[2].value.members) = 1
    /\ body.members[2].value.members[1].value.members =
           <<Member(Lit.name, StringValue(Sample.fileName)),
             Member(Lit.type, StringValue(Sample.imagePng)),
             Member(Lit.size, NumberValue(<<51>>))>>

\* C28: a request body that is a stream, a multi-part form, a URL-encoded form
\* or a binary buffer is classified stream / multipart / form / binary whatever
\* content type is declared; otherwise the kind is that of the content type's
\* media type, otherwise that of the parsed body's shape, otherwise unknown.  A
\* multi-part form with a text field and a file is classified multipart, and the
\* file is captured as a descriptor of name, type and size only.
C28_RequestBodyKindPriority ==
    \A n \in DOMAIN captures :
        /\ (captures[n].what = "classify" /\ captures[n].bodySource.kind # "null")
           => ClassifiedInOrder(captures[n].contentType, captures[n].bodySource,
                                captures[n].parsedBody, captures[n].result)
        /\ (captures[n].what = "request" /\ captures[n].request.body = MultipartBody)
           => /\ captures[n].result.ok
              /\ captures[n].result.value.bodyKind = "multipart"
              /\ MultipartCaptured(captures[n].result.value.body)

\* The multi-part form was classified under a declared JSON content type.
C28_Witness ==
    \E n \in DOMAIN captures :
        /\ captures[n].what = "classify"
        /\ captures[n].bodySource = MultipartBody
        /\ captures[n].contentType = Defined(Lit.applicationJson)
        /\ captures[n].result = "multipart"

\* The headers source with the names of a plain object in lower case.
LowerCaseNames(headers) ==
    IF headers.kind # "record" THEN headers
    ELSE PlainHeaders([name \in {Fold(k) : k \in DOMAIN headers.entries} |->
                          headers.entries[CHOOSE k \in DOMAIN headers.entries : Fold(k) = name]])

\* Two runs of serializeRequest gave the same body, bodyKind and cookies.
SameCapture(a, b) ==
    /\ a.ok = b.ok
    /\ a.ok => /\ a.value.body = b.value.body
               /\ a.value.bodyKind = b.value.bodyKind
               /\ DOMAIN a.value.cookies = DOMAIN b.value.cookies
               /\ \A k \in DOMAIN a.value.cookies : a.value.cookies[k] = b.value.cookies[k]

\* C29: a request captures to the same body, bodyKind and cookies as the request
\* that differs from it only in the letter case of its header names.
C29_HeaderNameCaseIgnored ==
    \A n \in DOMAIN captures :
        captures[n].what = "request" =>
            SameCapture(captures[n].result,
                        serializeRequest([captures[n].request EXCEPT
                                             !.headers = LowerCaseNames(@)]))

\* The method a request is made with (GET when init.method is absent).
MethodOf(req) == IF req.method = Undefined THEN <<71, 69, 84>> ELSE req.method[1]

\* A string with its ASCII letters in upper case, and with hyphens as spaces.
UpperCase(str) == [n \in DOMAIN str |-> IF str[n] \in 97..122 THEN str[n] - 32 ELSE str[n]]
Spaced(str) == [n \in DOMAIN str |-> IF str[n] = 45 THEN 32 ELSE str[n]]

\* C30: the captured method is the request's method in upper case, and the
\* violation summary is that method, the contract's label when present else
\* its path, and the kind with spaces for hyphens, separated by single spaces.
C30_SummaryStartsWithUpperCaseMethod ==
    \A n \in DOMAIN captures :
        /\ (captures[n].what \in {"request", "summary"} /\ captures[n].result.ok)
           => captures[n].result.value.method = UpperCase(MethodOf(captures[n].request))
        /\ captures[n].what = "summary"
           => captures[n].summary =
                  UpperCase(MethodOf(captures[n].request)) \o <<32>>
                      \o (IF captures[n].contract.label # Undefined
                          THEN Spelled(captures[n].contract.label[1])
                          ELSE captures[n].contract.path[1])
                      \o <<32>> \o Spaced(Spelled(captures[n].kind))

\* The reports logged so far, and the error items of a report.
Reports == {n \in DOMAIN captures : captures[n].what = "report"}
ItemsOf(report) == IF report.errors = Undefined THEN <<>> ELSE report.errors[1]

\* The field of an error path: its segments joined with ".", "body" when it has none.
FieldOf(path) ==
    IF path = Undefined THEN Lit.body
    ELSE IF Segments(path[1]) = <<>> THEN Lit.body
    ELSE Join(Segments(path[1]), <<Ch.dot>>)

\* The type named by the schema expected (the evaluator's params when no schema
\* is given), "per schema" when none is named.
NamedType(schema) ==
    IF schema # Undefined /\ HasMember(schema[1].members, Lit.type)
    THEN schema[1].members[MemberAt(schema[1].members, Lit.type)].value.text
    ELSE Lit.perSchema

\* The runtime type of a received value.
RuntimeType(value) ==
    IF value.type \in {"null", "array"}
    THEN (IF value.type = "null" THEN Lit.null ELSE Lit.array)
    ELSE Spelled(value.type)

\* The line of an error item as the format states it.
LineAsStated(item) ==
    IF item.received # Undefined
    THEN FieldOf(item.path) \o Lit.expected
             \o NamedType(IF item.expectedSchema # Undefined THEN item.expectedSchema
                          ELSE item.params)
             \o Lit.received \o RuntimeType(item.received[1])
    ELSE FieldOf(item.path) \o Lit.colonSpace \o item.message

EndsWith(s, suffix) ==
    Len(s) >= Len(suffix) /\ SubSeq(s, Len(s) - Len(suffix) + 1, Len(s)) = suffix

\* A report is formatted and logged as stated.
ReportAsStated(report, items) ==
    /\ items # <<>> =>
          report.message = report.summary \o Lit.colonSpace
              \o Join([i \in DOMAIN items |-> LineAsStated(items[i])], Lit.lineSeparator)
    /\ Len(report.logged) = (IF Len(items) > 1 THEN 1 + Len(items) ELSE 1)
    /\ EndsWith(report.logged[1], report.message)
    /\ Len(items) > 1 =>
          \A i \in DOMAIN items :
              /\ report.logged[i + 1][1] = Ch.space
              /\ EndsWith(report.logged[i + 1], LineAsStated(items[i]))
    /\ (report.data = Defined(DataId7) /\ report.raised = <<TypeError(Report.pointerId)>>) =>
          report.message = report.summary \o Lit.colonSpace \o Report.idLine

\* C31: the message of a violation is the summary followed by the lines of its
\* error items joined with "; "; the line of an item is "<field>: expected <type
\* or 'per schema'>, received <runtime type>" when the item has a received value
\* and "<field>: <message>" otherwise, the field being the error path with "."
\* for "/" and "body" for an empty path; one log entry is written for at most one
\* error and 1 + n for n > 1, each line as an indented entry of its own; a type
\* error at /id for "7" against integer reads "id: expected integer, received string".
C31_ViolationMessageFormat ==
    \A n \in Reports : ReportAsStated(captures[n], ItemsOf(captures[n]))

\* Three errors of the evaluator were logged as four entries, the second being
\* "  - items.0.id: expected integer, received string".
C31_Witness ==
    \E n \in Reports :
        /\ Len(captures[n].raised) = 3
        /\ Len(captures[n].logged) = 4
        /\ captures[n].logged[2] =
              Lit.logItem \o Report.items \o <<Ch.dot, Ch.zero, Ch.dot>> \o Report.idLine

\* This step runs the handler of validator r (a queued listener invocation).
HandlerStep(r) ==
    /\ mq # <<>>
    /\ Head(mq)[1] = "listener"
    /\ Head(mq)[5] = HandlerOf(r)
    /\ mq' = Tail(mq)
    /\ calls' # calls

\* Registration r has been torn down: its cleanup has detached its validator.
TornDown(r) == validators[r].interceptorRef = Null /\ validators[r].handlerRef = Null

\* C32: once unregister() has returned, the handler of the torn-down registration
\* (which calls onViolation and the log sink) is never run again: neither by a
\* listener invocation that was queued before, nor for an exchange in flight.
C32_SilentAfterUnregister ==
    [][\A r \in DOMAIN validators :
          (lastOp \in {<<"unregister">>, <<"handle", r>>} /\ TornDown(r)) => ~HandlerStep(r)]_vars

\* The runs of a validator's handler for call k, over all its exchanges.
HandlerRunsOfCall(k) ==
    UNION {{<<f, n>> : n \in {m \in DOMAIN calls[k].frames[f].log :
                                 /\ RunsAt(calls[k].frames[f].log, m, "response")
                                 /\ calls[k].frames[f].log[m].cb[1] = "handler"}} :
           f \in FrameIds(k)}

\* The validators subscribed to an interceptor.
Subscribed == {r \in DOMAIN validators : validators[r].handlerRef # Null}

\* C33: a call through globalThis.fetch is validated at most once (each failing
\* aspect reported at most once), whatever register / unregister /
\* handle.unregister calls came before, and no validator of an earlier
\* registration remains subscribed alongside the current one.
C33_ValidatedAtMostOnce ==
    /\ Cardinality(Subscribed) <= 1
    /\ \A k \in CallIds : Cardinality(HandlerRunsOfCall(k)) <= 1

\* The continuation that settles the promise of call k one level further out is
\* in the microtask queue.
ContinuationQueued(k) ==
    \E n \in DOMAIN mq : mq[n][1] \in {"reaction", "caller"} /\ mq[n][2] = k

\* What exchange f of call k did for its response event: the capture completing,
\* the emission, a listener run.
ResponseWork(k, f) ==
    {n \in DOMAIN calls[k].frames[f].log :
        \/ calls[k].frames[f].log[n].what = "normalized"
        \/ calls[k].frames[f].log[n].what \in {"emit", "run"}
           /\ calls[k].frames[f].log[n].event = "response"}

\* C35: the promise returned to the caller settles as soon as the underlying
\* call settles: from then until the caller has it, a continuation of the call
\* is in the microtask queue (nothing waits for the body of the clone to be read
\* or for a listener), every wrapper's promise settles before any work for its
\* response event is done, and the caller sees the outcome of the underlying call.
C35_CallerNeverBlocked ==
    \A k \in CallIds :
        /\ (calls[k].transport \in {"fulfilled", "rejected"} /\ calls[k].caller = "pending")
              => ContinuationQueued(k)
        /\ \A f \in FrameIds(k) :
              calls[k].frames[f].state = "pending" => ResponseWork(k, f) = {}
        /\ calls[k].caller \in {"fulfilled", "rejected"} => calls[k].caller = calls[k].transport

\* The caller has received the response and read its body while the capture of
\* an exchange is still reading the clone, and no response event was emitted.
C35_Witness ==
    \E k \in CallIds :
        /\ calls[k].caller = "fulfilled"
        /\ calls[k].callerRead \notin {"none", "TypeError"}
        /\ calls[k].frames # <<>>
        /\ \A f \in FrameIds(k) :
              calls[k].frames[f].clone = "reading" /\ ResponseWork(k, f) = {}

\* C36: the path the handler matches with is the request's path without query
\* string and fragment, equal to the pathname of its ParsedUrl; the requests to
\* "/api/users#top" and "/api/users?x=1#top" are matched as "/api/users".
C36_MatchedByCanonicalPath ==
    \A n \in DOMAIN validation.resolved :
        /\ validation.resolved[n].pathname = validation.resolved[n].parsed.pathname
        /\ IndexOf(validation.resolved[n].pathname, Ch.question) = 0
        /\ IndexOf(validation.resolved[n].pathname, Ch.hash) = 0
        /\ validation.resolved[n].url \in
              { PathUsers \o <<Ch.hash>> \o Str.top,
                PathUsers \o <<Ch.question>> \o Str.x1 \o <<Ch.hash>> \o Str.top }
              => /\ validation.resolved[n].pathname = PathUsers
                 /\ validation.resolved[n].result = Returned(1)


\* C34: for any number of interceptors and any interleaving of their install() /
\* uninstall() calls, once every interceptor is uninstalled globalThis.fetch is
\* the function that was in place before the first install (which is no wrapper).
C34_UninstallRestoresOriginal ==
    (\A i \in DOMAIN interceptors : ~interceptors[i].installed) => ~IsWrapper(globalFetch)
\* A validator's handler has run, or is queued to run, for call k (for any event).
HandlerInvolved(k) ==
    \/ \E f \in FrameIds(k) : \E n \in DOMAIN calls[k].frames[f].log :
          /\ calls[k].frames[f].log[n].what = "run"
          /\ calls[k].frames[f].log[n].cb[1] = "handler"
    \/ \E n \in DOMAIN mq :
          mq[n][1] = "listener" /\ mq[n][2] = k /\ mq[n][5][1] = "handler"

\* C37: an exchange whose underlying call fails is never validated: a validator's
\* handler is invoked (and with it any check or report) only for calls whose
\* underlying call fulfilled, never for one that rejected or was never issued.
C37_FailedCallNotValidated ==
    \A k \in CallIds : HandlerInvolved(k) => calls[k].transport = "fulfilled"

\* A call rejected, its error event was emitted by an interceptor with a
\* validator attached, the caller has the rejection and nothing is left to run.
C37_Witness ==
    \E k \in CallIds :
        /\ calls[k].transport = "rejected"
        /\ calls[k].caller = "rejected"
        /\ mq = <<>>
        /\ \E f \in FrameIds(k) :
              /\ AttachedTo(calls[k].frames[f].icpt) # {}
              /\ \E n \in DOMAIN calls[k].frames[f].log :
                    /\ calls[k].frames[f].log[n].what = "emit"
                    /\ calls[k].frames[f].log[n].event = "error"


\* C38: in every reachable state a FetchInterceptor is installed iff its saved
\* original is non-null, so uninstall() on an installed interceptor leaves it
\* uninstalled and globalThis.fetch is not its wrapper afterwards (also when it
\* was installed while globalThis.fetch was undefined).
C38_InstalledIffOriginalSaved ==
    \A i \in DOMAIN interceptors :
        /\ interceptors[i].installed <=> ~Nullish(interceptors[i].originalFetch)
        /\ interceptors[i].installed =>
              /\ ~Uninstall(World, i).icpts[i].installed
              /\ Uninstall(World, i).fetch # Wrapper(i)

====
